---- MODULE Spec2Model ----
(***************************************************************************)
(* A model of the SMS parsing engine: the template-method pipeline of      *)
(* BankParser.parse, the leaf parsers HDFC, SBI, Canara, Utkarsh and       *)
(* Bandhan, the dispatch registry and the identity hash.                   *)
(*                                                                         *)
(* A message body and a sender are sequences of one-character strings.     *)
(* Python's re module is modelled by a backtracking matcher over regex     *)
(* trees, so that every pattern of the source is transcribed as it is      *)
(* written there and matched with Python's leftmost, greedy/lazy rules.    *)
(***************************************************************************)
EXTENDS Integers, Sequences, FiniteSets, TLC

----------------------------------------------------------------------------
(* Characters *)

Digits == {"0","1","2","3","4","5","6","7","8","9"}

UpperSeq == <<"A","B","C","D","E","F","G","H","I","J","K","L","M",
              "N","O","P","Q","R","S","T","U","V","W","X","Y","Z">>

LowerSeq == <<"a","b","c","d","e","f","g","h","i","j","k","l","m",
              "n","o","p","q","r","s","t","u","v","w","x","y","z">>

Uppers == {UpperSeq[k] : k \in 1..26}

Lowers == {LowerSeq[k] : k \in 1..26}

\* \s, \w of Python's re (ASCII part)
Spaces == {" ", "\n", "\t"}

WordChars == Digits \cup Uppers \cup Lowers \cup {"_"}

PunctSeq == <<"!","#","$","%","&","'","(",")","*","+",",","-",".","/",":",";","<","=",">","?","@","[","]","^","{","|","}","~"," ">>

\* the characters c with ord(c) < 128 that a message is written with
Ascii == WordChars \cup {PunctSeq[k] : k \in 1..Len(PunctSeq)} \cup {"\"", "\\", "\n", "\t", "\r"}

\* str.lower() and str.upper() on one character
LowerChar(c) == IF c \in Uppers THEN LowerSeq[CHOOSE k \in 1..26 : UpperSeq[k] = c] ELSE c

UpperChar(c) == IF c \in Lowers THEN UpperSeq[CHOOSE k \in 1..26 : LowerSeq[k] = c] ELSE c

lower(s) == [k \in 1..Len(s) |-> LowerChar(s[k])]

upper(s) == [k \in 1..Len(s) |-> UpperChar(s[k])]

\* Python's "kw in text"
Contains(text, kw) ==
    \E i \in 1..(Len(text) - Len(kw) + 1) : \A k \in 1..Len(kw) : text[i + k - 1] = kw[k]

\* any(kw in text for kw in kws)
ContainsAny(text, kws) == \E n \in 1..Len(kws) : Contains(text, kws[n])

\* str.find(): the first index (1-based) of kw in text, 0 when absent
Find(text, kw) ==
    IF Contains(text, kw)
    THEN CHOOSE i \in 1..(Len(text) - Len(kw) + 1) :
            /\ \A k \in 1..Len(kw) : text[i + k - 1] = kw[k]
            /\ \A h \in 1..(i - 1) : \E k \in 1..Len(kw) : text[h + k - 1] # kw[k]
    ELSE 0

----------------------------------------------------------------------------
(* Regular expressions: the trees *)

Lit(s) == [t |-> "lit", s |-> s]

Cls(cs) == [t |-> "cls", cs |-> cs]

NotCls(cs) == [t |-> "ncls", cs |-> cs]

Cat(xs) == [t |-> "cat", xs |-> xs]

Alt(xs) == [t |-> "alt", xs |-> xs]

\* x{lo,hi}; hi = -1 is unbounded; lazy is the trailing ?
Rep(x, lo, hi) == [t |-> "rep", x |-> x, lo |-> lo, hi |-> hi, lazy |-> FALSE]

LazyRep(x, lo, hi) == [t |-> "rep", x |-> x, lo |-> lo, hi |-> hi, lazy |-> TRUE]

Opt(x) == Rep(x, 0, 1)

Star(x) == Rep(x, 0, -1)

Plus(x) == Rep(x, 1, -1)

\* a capturing group, numbered as in the pattern
Grp(n, x) == [t |-> "grp", n |-> n, x |-> x]

Bol == [t |-> "bol"]

Eol == [t |-> "eol"]

WordB == [t |-> "wb"]

\* \s  \d  \w
S == Cls(Spaces)

D == Cls(Digits)

\* no group of a match has taken part: Python's None
NoCaps == << <<0, 0>>, <<0, 0>> >>

Fail == <<>>

IsWordAt(text, i) == i >= 1 /\ i <= Len(text) /\ text[i] \in WordChars

\* the least element of a set of numbers, or d when it is empty
MinOr(xs, d) == IF xs = {} THEN d ELSE CHOOSE a \in xs : \A b \in xs : a <= b

\* the greatest element of a set of numbers, or d when it is empty
MaxOr(xs, d) == IF xs = {} THEN d ELSE CHOOSE a \in xs : \A b \in xs : a >= b

\* a unless it failed, and then b
OrFail(a, b) == IF a # Fail THEN a ELSE b

\* whether the one-character node r (a class or its complement) accepts text[i]
CharOk(r, ic, text, i) ==
    (r.t = "cls") =
    (\/ text[i] \in r.cs
     \/ (ic /\ (LowerChar(text[i]) \in r.cs \/ UpperChar(LowerChar(text[i])) \in r.cs)))

\* how many characters from position i on the class x accepts in a row, at most hi of them
ClassRun(x, hi, ic, text, i) ==
    LET n == MinOr({j \in i..Len(text) : ~CharOk(x, ic, text, j)}, Len(text) + 1) - i
    IN  IF hi >= 0 /\ hi < n THEN hi ELSE n

(* The backtracking matcher.  stack is the sequence of nodes still to be   *)
(* matched from position i; the result is <<end, caps>> of the first       *)
(* successful path in Python's priority order, or Fail.  ic is re.I.       *)
(* A repetition of a character class tries its counts from the longest run *)
(* down (greedy) or from the shortest up (lazy), as backtracking does.      *)
RECURSIVE Match(_, _, _, _, _)

\* go on at position at; at = 0 says that no count of a repetition led to a match
Resume(stack, ic, text, at, caps) == IF at = 0 THEN Fail ELSE Match(stack, ic, text, at, caps)

Match(stack, ic, text, i, caps) ==
    IF stack = <<>> THEN <<i, caps>>
    ELSE
    LET r == Head(stack)
        rest == Tail(stack)
    IN  CASE r.t = "lit" ->
               IF /\ i + Len(r.s) - 1 <= Len(text)
                  /\ \A k \in 1..Len(r.s) :
                        IF ic THEN LowerChar(text[i + k - 1]) = LowerChar(r.s[k])
                              ELSE text[i + k - 1] = r.s[k]
               THEN Match(rest, ic, text, i + Len(r.s), caps)
               ELSE Fail
          [] r.t \in {"cls", "ncls"} ->
               IF i <= Len(text) /\ CharOk(r, ic, text, i)
               THEN Match(rest, ic, text, i + 1, caps)
               ELSE Fail
          [] r.t = "cat" -> Match(r.xs \o rest, ic, text, i, caps)
          [] r.t = "alt" ->
               OrFail(Match(<<Head(r.xs)>> \o rest, ic, text, i, caps),
                      IF Len(r.xs) = 1 THEN Fail
                      ELSE Match(<<Alt(Tail(r.xs))>> \o rest, ic, text, i, caps))
          [] r.t = "rep" /\ r.x.t \in {"cls", "ncls"} ->
               LET ends == {j \in (i + r.lo)..(i + ClassRun(r.x, r.hi, ic, text, i)) :
                               Match(rest, ic, text, j, caps) # Fail}
               IN  Resume(rest, ic, text, IF r.lazy THEN MinOr(ends, 0) ELSE MaxOr(ends, 0), caps)
          [] r.t = "rep" /\ r.x.t \notin {"cls", "ncls"} ->
               LET more == IF r.hi = 0 THEN Fail
                           ELSE Match(<<r.x, [r EXCEPT !.lo = IF r.lo > 0 THEN r.lo - 1 ELSE 0,
                                                       !.hi = IF r.hi > 0 THEN r.hi - 1 ELSE r.hi]>>
                                      \o rest, ic, text, i, caps)
                   stop == IF r.lo > 0 THEN Fail ELSE Match(rest, ic, text, i, caps)
               IN  IF r.lazy THEN OrFail(stop, more) ELSE OrFail(more, stop)
          [] r.t = "grp" ->
               Match(<<[t |-> "open", n |-> r.n], r.x, [t |-> "close", n |-> r.n]>> \o rest,
                     ic, text, i, caps)
          [] r.t = "open" -> Match(rest, ic, text, i, [caps EXCEPT ![r.n] = <<i, 0>>])
          [] r.t = "close" -> Match(rest, ic, text, i, [caps EXCEPT ![r.n] = <<caps[r.n][1], i>>])
          [] r.t = "bol" -> IF i = 1 THEN Match(rest, ic, text, i, caps) ELSE Fail
          [] r.t = "eol" ->
               IF i = Len(text) + 1 \/ (i = Len(text) /\ text[i] = "\n")
               THEN Match(rest, ic, text, i, caps) ELSE Fail
          [] r.t = "wb" ->
               IF IsWordAt(text, i - 1) # IsWordAt(text, i)
               THEN Match(rest, ic, text, i, caps) ELSE Fail

\* re.compile(tree) and re.compile(tree, re.IGNORECASE)
Re(tree) == [re |-> tree, ic |-> FALSE]

ReI(tree) == [re |-> tree, ic |-> TRUE]

\* the match object of a match that starts at s: [s, e, caps] with e one past the end
MatchObject(s, m) == [s |-> s, e |-> m[1], caps |-> m[2]]

\* the attempt at position i, where i = 0 says that no position matches
MatchAt(p, text, i) ==
    IF i = 0 THEN Fail ELSE MatchObject(i, Match(<<p.re>>, p.ic, text, i, NoCaps))

\* pattern.search(text): the leftmost match, or Fail
Search(p, text) ==
    MatchAt(p, text, MinOr({i \in 1..(Len(text) + 1) : Match(<<p.re>>, p.ic, text, i, NoCaps) # Fail}, 0))

\* pattern.match(text): a match at the start of the text
MatchAtStart(p, text) == Match(<<p.re>>, p.ic, text, 1, NoCaps) # Fail

\* m.group(n)
Group(text, m, n) == SubSeq(text, m.caps[n][1], m.caps[n][2] - 1)

\* m.group(0)
Group0(text, m) == SubSeq(text, m.s, m.e - 1)

\* (?:w1|w2|...) over literal words
Words(ws) == Alt([k \in 1..Len(ws) |-> Lit(ws[k])])

\* "."  (re.DOTALL is never set)
Dot == NotCls({"\n"})

\* pattern.sub("", text): every non-overlapping match removed
RECURSIVE SubEmpty(_, _)

\* the text without the match m and without the later matches
Cut(p, text, m) ==
    IF m = Fail THEN text
    ELSE IF m.e > m.s
         THEN SubSeq(text, 1, m.s - 1) \o SubEmpty(p, SubSeq(text, m.e, Len(text)))
         ELSE IF m.s > Len(text) THEN text
              ELSE SubSeq(text, 1, m.s) \o SubEmpty(p, SubSeq(text, m.s + 1, Len(text)))

SubEmpty(p, text) == Cut(p, text, Search(p, text))

\* str.strip()
RECURSIVE Strip(_)
Strip(s) ==
    IF s = <<>> THEN s
    ELSE IF Head(s) \in Spaces THEN Strip(Tail(s))
    ELSE IF s[Len(s)] \in Spaces THEN Strip(SubSeq(s, 1, Len(s) - 1))
    ELSE s

\* str.replace(",", "")
RemoveCommas(s) == SelectSeq(s, LAMBDA c : c # ",")

\* "".join(filter(str.isdigit, s))
OnlyDigits(s) == SelectSeq(s, LAMBDA c : c \in Digits)

----------------------------------------------------------------------------
(* Optional values and decimals *)

None == <<>>

Some(v) == <<v>>

\* x unless it is None, and then y
OrElse(x, y) == IF x # None THEN x ELSE y

\* m.group(n) of a match, None of no match
GroupOf(m, text, n) == IF m = Fail THEN None ELSE Some(Group(text, m, n))

\* x.strip() and x.upper() under the option
StripOf(x) == IF x = None THEN None ELSE Some(Strip(x[1]))

UpperOf(x) == IF x = None THEN None ELSE Some(upper(x[1]))

DigitSeq == <<"0","1","2","3","4","5","6","7","8","9">>

RECURSIVE DigitsValue(_)
DigitsValue(ds) ==
    IF ds = <<>> THEN 0
    ELSE 10 * DigitsValue(SubSeq(ds, 1, Len(ds) - 1))
         + ((CHOOSE n \in 1..10 : DigitSeq[n] = ds[Len(ds)]) - 1)

RECURSIVE Pow10(_)
Pow10(n) == IF n = 0 THEN 1 ELSE 10 * Pow10(n - 1)

(* Decimal(s) for an optional sign and digits with at most one point: the  *)
(* value c * 10^(-e), kept with its exponent as Python keeps it; None      *)
(* stands for InvalidOperation (no digit at all, or anything that is not   *)
(* a number).                                                              *)
UnsignedDecimal(s) ==
    LET dots == {k \in 1..Len(s) : s[k] = "."}
        dot == IF dots = {} THEN Len(s) + 1 ELSE CHOOSE k \in dots : TRUE
        ip == SubSeq(s, 1, dot - 1)
        fp == SubSeq(s, dot + 1, Len(s))
    IN  IF /\ Cardinality(dots) <= 1
           /\ \A k \in 1..Len(s) : s[k] \in Digits \cup {"."}
           /\ Len(ip) + Len(fp) >= 1
        THEN Some([c |-> DigitsValue(ip \o fp), e |-> Len(fp)])
        ELSE None

Negated(x) == IF x = None THEN None ELSE Some([c |-> 0 - x[1].c, e |-> x[1].e])

Decimal(s) ==
    IF s # <<>> /\ Head(s) = "-" THEN Negated(UnsignedDecimal(Tail(s)))
    ELSE IF s # <<>> /\ Head(s) = "+" THEN UnsignedDecimal(Tail(s))
    ELSE UnsignedDecimal(s)

(* for p in pats: m = p.search(text); if m: try: return Decimal(m.group(g)  *)
(* .replace(",", "")) except InvalidOperation: pass -- then the caller's    *)
(* fallback.  The loop shared by every decimal extractor.                   *)
DecimalOf(m, g, text) == IF m = Fail THEN None ELSE Decimal(RemoveCommas(Group(text, m, g)))

RECURSIVE FirstDecimal(_, _, _)
FirstDecimal(pats, g, text) ==
    IF pats = <<>> THEN None
    ELSE OrElse(DecimalOf(Search(Head(pats), text), g, text), FirstDecimal(Tail(pats), g, text))

\* for p in pats: m = p.search(text); if m: return m.group(1)
RECURSIVE FirstGroup(_, _)
FirstGroup(pats, text) ==
    IF pats = <<>> THEN None
    ELSE OrElse(GroupOf(Search(Head(pats), text), text, 1), FirstGroup(Tail(pats), text))

----------------------------------------------------------------------------
(* CompiledPatterns *)

\* [0-9,]+(?:\.\d{2})?
Num == Cat(<<Plus(Cls(Digits \cup {","})), Opt(Cat(<<Lit(<<".">>), Rep(D, 2, 2)>>))>>)

\* Rs\.?\s*
RsDot == Cat(<<Lit(<<"R","s">>), Opt(Lit(<<".">>)), Star(S)>>)

RS_PATTERN == ReI(Cat(<<RsDot, Grp(1, Num)>>))

INR_PATTERN == ReI(Cat(<<Lit(<<"I","N","R">>), Star(S), Grp(1, Num)>>))

RUPEE_SYMBOL_PATTERN == Re(Cat(<<Lit(<<"rupee">>), Star(S), Grp(1, Num)>>))

Amount_ALL_PATTERNS == <<RS_PATTERN, INR_PATTERN, RUPEE_SYMBOL_PATTERN>>

\* [:\s]+
ColonSpaces == Plus(Cls(Spaces \cup {":"}))

\* [A-Z0-9]
AlNum == Cls(Uppers \cup Digits)

Reference_ALL_PATTERNS ==
    << ReI(Cat(<<Words(<<<<"R","e","f">>, <<"R","e","f","e","r","e","n","c","e">>, <<"T","x","n">>, <<"T","r","a","n","s","a","c","t","i","o","n">>>>),
                 Opt(Cat(<<Plus(S), Lit(<<"N","o">>)>>)), ColonSpaces, Grp(1, Plus(AlNum))>>)),
       ReI(Cat(<<Lit(<<"U","P","I">>), ColonSpaces, Grp(1, Plus(D))>>)),
       ReI(Cat(<<Lit(<<"R","e","f","e","r","e","n","c","e">>), Plus(S), Lit(<<"N","u","m","b","e","r">>), ColonSpaces, Grp(1, Plus(AlNum))>>)) >>

\* (?:XX+|\*+)?
Mask == Opt(Alt(<<Cat(<<Lit(<<"X">>), Plus(Cls({"X"}))>>), Plus(Cls({"*"}))>>))

AcctWord == Words(<<<<"A","/","c">>, <<"A","c","c","o","u","n","t">>, <<"A","c","c","t">>>>)

AC_WITH_MASK ==
    ReI(Cat(<<AcctWord, Opt(Cat(<<Plus(S), Lit(<<"N","o">>)>>)), Opt(Lit(<<".">>)), Plus(S),
              Mask, Grp(1, Rep(D, 3, 4))>>))

CARD_WITH_MASK == ReI(Cat(<<Lit(<<"C","a","r","d">>), Plus(S), Mask, Grp(1, Rep(D, 4, 4))>>))

Account_ALL_PATTERNS == <<AC_WITH_MASK, CARD_WITH_MASK>>

\* (?:Bal|Balance|Avl Bal|Available Balance)[:\s]+
BalWord == Cat(<<Words(<<<<"B","a","l">>, <<"B","a","l","a","n","c","e">>, <<"A","v","l"," ","B","a","l">>, <<"A","v","a","i","l","a","b","l","e"," ","B","a","l","a","n","c","e">>>>), ColonSpaces>>)

UpdWord == Cat(<<Words(<<<<"U","p","d","a","t","e","d"," ","B","a","l","a","n","c","e">>, <<"R","e","m","a","i","n","i","n","g"," ","B","a","l","a","n","c","e">>>>), ColonSpaces>>)

Balance_ALL_PATTERNS ==
    << ReI(Cat(<<BalWord, RsDot, Grp(1, Num)>>)),
       ReI(Cat(<<BalWord, Lit(<<"I","N","R">>), Star(S), Grp(1, Num)>>)),
       ReI(Cat(<<BalWord, Lit(<<"rupee">>), Star(S), Grp(1, Num)>>)),
       ReI(Cat(<<BalWord, Grp(1, Num)>>)),
       ReI(Cat(<<UpdWord, RsDot, Grp(1, Num)>>)),
       ReI(Cat(<<UpdWord, Lit(<<"I","N","R">>), Star(S), Grp(1, Num)>>)) >>

\* ([^\.\n]+?)
MerchantText == Grp(1, LazyRep(NotCls({".", "\n"}), 1, -1))

\* (?:\s+w1|\s+w2|...)
SpWords(ws) == Alt([k \in 1..Len(ws) |-> Cat(<<Plus(S), Lit(ws[k])>>)])

Merchant_ALL_PATTERNS ==
    << ReI(Cat(<<Lit(<<"t","o">>), Plus(S), MerchantText, SpWords(<<<<"o","n">>, <<"a","t">>, <<"R","e","f">>, <<"U","P","I">>>>)>>)),
       ReI(Cat(<<Lit(<<"f","r","o","m">>), Plus(S), MerchantText, SpWords(<<<<"o","n">>, <<"a","t">>, <<"R","e","f">>, <<"U","P","I">>>>)>>)),
       ReI(Cat(<<Lit(<<"a","t">>), Plus(S), MerchantText, SpWords(<<<<"o","n">>, <<"R","e","f">>>>)>>)),
       ReI(Cat(<<Lit(<<"f","o","r">>), Plus(S), MerchantText, SpWords(<<<<"o","n">>, <<"a","t">>, <<"R","e","f">>>>)>>)) >>

\* CompiledPatterns.Cleaning, in the order clean_merchant_name applies them
Cleaning_PATTERNS ==
    << Re(Cat(<<Star(S), Lit(<<"(">>), LazyRep(Dot, 0, -1), Lit(<<")">>), Star(S), Eol>>)),
       ReI(Cat(<<Plus(S), Lit(<<"R","e","f">>), Plus(S), Lit(<<"N","o">>), Star(Dot)>>)),
       Re(Cat(<<Plus(S), Lit(<<"o","n">>), Plus(S), Rep(D, 2, 2), Star(Dot)>>)),
       ReI(Cat(<<Plus(S), Lit(<<"U","P","I">>), Star(Dot)>>)),
       Re(Cat(<<Plus(S), Lit(<<"a","t">>), Plus(S), Rep(D, 2, 2), Lit(<<":">>), Rep(D, 2, 2), Star(Dot)>>)),
       Re(Cat(<<Star(S), Lit(<<"-">>), Star(S), Eol>>)),
       ReI(Cat(<<Grp(1, Alt(<<Cat(<<Plus(S), Lit(<<"P","V","T">>), Opt(Lit(<<".">>)), Star(S), Lit(<<"L","T","D">>), Opt(Lit(<<".">>))>>),
                              Cat(<<Plus(S), Lit(<<"P","R","I","V","A","T","E">>), Plus(S), Lit(<<"L","I","M","I","T","E","D">>)>>)>>)), Eol>>)),
       ReI(Cat(<<Grp(1, Alt(<<Cat(<<Plus(S), Lit(<<"L","T","D">>), Opt(Lit(<<".">>))>>),
                              Cat(<<Plus(S), Lit(<<"L","I","M","I","T","E","D">>)>>)>>)), Eol>>)) >>

\* Constants.Parsing.MIN_MERCHANT_NAME_LENGTH (constants.py)
MIN_MERCHANT_NAME_LENGTH == 2

----------------------------------------------------------------------------
(* TransactionType *)

INCOME == "INCOME"

EXPENSE == "EXPENSE"

CREDIT == "CREDIT"

TRANSFER == "TRANSFER"

INVESTMENT == "INVESTMENT"

BALANCE_UPDATE == "BALANCE_UPDATE"

TransactionType == {INCOME, EXPENSE, CREDIT, TRANSFER, INVESTMENT, BALANCE_UPDATE}

----------------------------------------------------------------------------
(* BankParser: the default steps *)

\* the keyword lists of is_transaction_message, in the order it tests them
otp_keywords == <<<<"o","t","p">>, <<"o","n","e"," ","t","i","m","e"," ","p","a","s","s","w","o","r","d">>, <<"v","e","r","i","f","i","c","a","t","i","o","n"," ","c","o","d","e">>>>

promotional_keywords == <<<<"o","f","f","e","r">>, <<"d","i","s","c","o","u","n","t">>, <<"c","a","s","h","b","a","c","k"," ","o","f","f","e","r">>, <<"w","i","n"," ">>>>

payment_request_keywords ==
    <<<<"h","a","s"," ","r","e","q","u","e","s","t","e","d">>, <<"p","a","y","m","e","n","t"," ","r","e","q","u","e","s","t">>, <<"c","o","l","l","e","c","t"," ","r","e","q","u","e","s","t">>,
      <<"r","e","q","u","e","s","t","i","n","g"," ","p","a","y","m","e","n","t">>, <<"r","e","q","u","e","s","t","s"," ","r","s">>, <<"i","g","n","o","r","e"," ","i","f"," ","a","l","r","e","a","d","y"," ","p","a","i","d">>>>

bill_due_keywords ==
    <<<<"i","s"," ","d","u","e">>, <<"m","i","n"," ","a","m","o","u","n","t"," ","d","u","e">>, <<"m","i","n","i","m","u","m"," ","a","m","o","u","n","t"," ","d","u","e">>,
      <<"i","n"," ","a","r","r","e","a","r","s">>, <<"i","s"," ","o","v","e","r","d","u","e">>, <<"i","g","n","o","r","e"," ","i","f"," ","p","a","i","d">>>>

transaction_keywords ==
    <<<<"d","e","b","i","t","e","d">>, <<"c","r","e","d","i","t","e","d">>, <<"w","i","t","h","d","r","a","w","n">>, <<"d","e","p","o","s","i","t","e","d">>,
      <<"s","p","e","n","t">>, <<"r","e","c","e","i","v","e","d">>, <<"t","r","a","n","s","f","e","r","r","e","d">>, <<"p","a","i","d">>>>

\* a variant that looks for the transaction verbs before the rejection rules
is_transaction_message_verbs_first(message) ==
    ContainsAny(lower(message), transaction_keywords)

BankParser_is_transaction_message(message) ==
    LET low == lower(message)
    IN  IF ContainsAny(low, otp_keywords) THEN FALSE
        ELSE IF ContainsAny(low, promotional_keywords) THEN FALSE
        ELSE IF ContainsAny(low, payment_request_keywords) THEN FALSE
        ELSE IF Contains(low, <<"h","a","v","e"," ","r","e","c","e","i","v","e","d"," ","p","a","y","m","e","n","t">>) THEN FALSE
        ELSE IF ContainsAny(low, bill_due_keywords) THEN FALSE
        ELSE IF Contains(low, <<"p","l","s"," ","p","a","y">>) /\ Contains(low, <<"m","i","n"," ","o","f">>) THEN FALSE
        ELSE ContainsAny(low, transaction_keywords)

BankParser_extract_currency(message) ==
    UpperOf(GroupOf(Search(ReI(Cat(<<Grp(1, Rep(Cls(Uppers), 3, 3)), Star(S), Num>>)), message),
                    message, 1))

\* -?[0-9,]+(?:\.\d{2})?
SignedNum == Cat(<<Opt(Lit(<<"-">>)), Num>>)

\* a variant whose patterns take a minus sign into the captured number
extract_amount_signed(message) ==
    FirstDecimal(<<ReI(Cat(<<RsDot, Grp(1, SignedNum)>>)),
                   ReI(Cat(<<Lit(<<"I","N","R">>), Star(S), Grp(1, SignedNum)>>)),
                   Re(Cat(<<Lit(<<"rupee">>), Star(S), Grp(1, SignedNum)>>))>>,
                 1, message)

BankParser_extract_amount(message) == FirstDecimal(Amount_ALL_PATTERNS, 1, message)

investment_keywords ==
    << <<"i","c","c","l">>, <<"i","n","d","i","a","n"," ","c","l","e","a","r","i","n","g"," ","c","o","r","p","o","r","a","t","i","o","n">>, <<"n","s","c","c","l">>, <<"n","s","e"," ","c","l","e","a","r","i","n","g">>,
       <<"c","l","e","a","r","i","n","g"," ","c","o","r","p","o","r","a","t","i","o","n">>, <<"n","a","c","h">>, <<"a","c","h">>, <<"e","c","s">>,
       <<"g","r","o","w","w">>, <<"z","e","r","o","d","h","a">>, <<"u","p","s","t","o","x">>, <<"k","i","t","e">>, <<"k","u","v","e","r","a">>,
       <<"p","a","y","t","m"," ","m","o","n","e","y">>, <<"e","t","m","o","n","e","y">>, <<"c","o","i","n"," ","b","y"," ","z","e","r","o","d","h","a">>, <<"s","m","a","l","l","c","a","s","e">>,
       <<"a","n","g","e","l"," ","o","n","e">>, <<"a","n","g","e","l"," ","b","r","o","k","i","n","g">>, <<"5","p","a","i","s","a">>,
       <<"i","c","i","c","i"," ","s","e","c","u","r","i","t","i","e","s">>, <<"i","c","i","c","i"," ","d","i","r","e","c","t">>, <<"h","d","f","c"," ","s","e","c","u","r","i","t","i","e","s">>,
       <<"k","o","t","a","k"," ","s","e","c","u","r","i","t","i","e","s">>, <<"m","o","t","i","l","a","l"," ","o","s","w","a","l">>, <<"s","h","a","r","e","k","h","a","n">>,
       <<"e","d","e","l","w","e","i","s","s">>, <<"a","x","i","s"," ","d","i","r","e","c","t">>, <<"s","b","i"," ","s","e","c","u","r","i","t","i","e","s">>,
       <<"m","u","t","u","a","l"," ","f","u","n","d">>, <<"s","i","p">>, <<"e","l","s","s">>, <<"i","p","o">>, <<"f","o","l","i","o">>,
       <<"d","e","m","a","t">>, <<"s","t","o","c","k","b","r","o","k","e","r">>, <<"d","i","g","i","t","a","l"," ","g","o","l","d">>, <<"s","o","v","e","r","e","i","g","n"," ","g","o","l","d">>,
       <<"n","s","e">>, <<"b","s","e">>, <<"c","d","s","l">>, <<"n","s","d","l">> >>

is_investment_transaction(lower_message) == ContainsAny(lower_message, investment_keywords)

\* a variant that tests the debit verbs before the investment keywords
extract_transaction_type_debit_first(message) ==
    LET low == lower(message)
    IN  IF ContainsAny(low, <<<<"d","e","b","i","t","e","d">>, <<"w","i","t","h","d","r","a","w","n">>, <<"s","p","e","n","t">>, <<"c","h","a","r","g","e","d">>,
                              <<"p","a","i","d">>, <<"p","u","r","c","h","a","s","e">>, <<"d","e","d","u","c","t","e","d">>>>)
        THEN Some(EXPENSE)
        ELSE IF is_investment_transaction(low) THEN Some(INVESTMENT)
        ELSE IF ContainsAny(low, <<<<"c","r","e","d","i","t","e","d">>, <<"d","e","p","o","s","i","t","e","d">>, <<"r","e","c","e","i","v","e","d">>, <<"r","e","f","u","n","d">>>>)
             THEN Some(INCOME)
        ELSE IF Contains(low, <<"c","a","s","h","b","a","c","k">>) /\ ~Contains(low, <<"e","a","r","n"," ","c","a","s","h","b","a","c","k">>) THEN Some(INCOME)
        ELSE None

\* a variant that knows the verb "transferred" as a transfer
extract_transaction_type_with_transfer(message) ==
    LET low == lower(message)
    IN  IF is_investment_transaction(low) THEN Some(INVESTMENT)
        ELSE IF ContainsAny(low, <<<<"d","e","b","i","t","e","d">>, <<"w","i","t","h","d","r","a","w","n">>, <<"s","p","e","n","t">>, <<"c","h","a","r","g","e","d">>,
                                   <<"p","a","i","d">>, <<"p","u","r","c","h","a","s","e">>, <<"d","e","d","u","c","t","e","d">>>>)
             THEN Some(EXPENSE)
        ELSE IF ContainsAny(low, <<<<"c","r","e","d","i","t","e","d">>, <<"d","e","p","o","s","i","t","e","d">>, <<"r","e","c","e","i","v","e","d">>, <<"r","e","f","u","n","d">>>>)
             THEN Some(INCOME)
        ELSE IF Contains(low, <<"c","a","s","h","b","a","c","k">>) /\ ~Contains(low, <<"e","a","r","n"," ","c","a","s","h","b","a","c","k">>) THEN Some(INCOME)
        ELSE IF Contains(low, <<"t","r","a","n","s","f","e","r","r","e","d">>) THEN Some(TRANSFER)
        ELSE None

BankParser_extract_transaction_type(message) ==
    LET low == lower(message)
    IN  IF is_investment_transaction(low) THEN Some(INVESTMENT)
        ELSE IF ContainsAny(low, <<<<"d","e","b","i","t","e","d">>, <<"w","i","t","h","d","r","a","w","n">>, <<"s","p","e","n","t">>, <<"c","h","a","r","g","e","d">>,
                                   <<"p","a","i","d">>, <<"p","u","r","c","h","a","s","e">>, <<"d","e","d","u","c","t","e","d">>>>)
             THEN Some(EXPENSE)
        ELSE IF ContainsAny(low, <<<<"c","r","e","d","i","t","e","d">>, <<"d","e","p","o","s","i","t","e","d">>, <<"r","e","c","e","i","v","e","d">>, <<"r","e","f","u","n","d">>>>)
             THEN Some(INCOME)
        ELSE IF Contains(low, <<"c","a","s","h","b","a","c","k">>) /\ ~Contains(low, <<"e","a","r","n"," ","c","a","s","h","b","a","c","k">>) THEN Some(INCOME)
        ELSE None

RECURSIVE ApplyCleaning(_, _)
ApplyCleaning(pats, s) ==
    IF pats = <<>> THEN s ELSE ApplyCleaning(Tail(pats), SubEmpty(Head(pats), s))

clean_merchant_name(merchant) == Strip(ApplyCleaning(Cleaning_PATTERNS, merchant))

is_valid_merchant_name(name) ==
    /\ Len(name) >= MIN_MERCHANT_NAME_LENGTH
    /\ \E k \in 1..Len(name) : name[k] \in Uppers \cup Lowers
    /\ upper(name) \notin {<<"U","S","I","N","G">>, <<"V","I","A">>, <<"T","H","R","O","U","G","H">>, <<"B","Y">>, <<"W","I","T","H">>,
                           <<"F","O","R">>, <<"T","O">>, <<"F","R","O","M">>, <<"A","T">>, <<"T","H","E">>}
    /\ ~(\A k \in 1..Len(name) : name[k] \in Digits)
    /\ ~Contains(name, <<"@">>)

\* "if self.is_valid_merchant_name(merchant): return merchant", None when the test fails
ValidOrNone(merchant) == IF is_valid_merchant_name(merchant) THEN Some(merchant) ELSE None

\* the cleaned group 1 of a match when it is a valid merchant name
MerchantOf(m, message) ==
    IF m = Fail THEN None ELSE ValidOrNone(clean_merchant_name(Strip(Group(message, m, 1))))

RECURSIVE FirstMerchant(_, _)
FirstMerchant(pats, message) ==
    IF pats = <<>> THEN None
    ELSE OrElse(MerchantOf(Search(Head(pats), message), message), FirstMerchant(Tail(pats), message))

BankParser_extract_merchant(message, sender) == FirstMerchant(Merchant_ALL_PATTERNS, message)

BankParser_extract_reference(message) ==
    StripOf(FirstGroup(Reference_ALL_PATTERNS, message))

\* \d{1,2}[/-]\d{1,2}[/-]
DayMonth == Cat(<<Rep(D, 1, 2), Cls({"/", "-"}), Rep(D, 1, 2), Cls({"/", "-"})>>)

\* the patterns _is_valid_account_last4 compiles around escaped = re.escape(last4)
date_patterns(last4) ==
    << Re(Cat(<<DayMonth, Lit(last4)>>)),
       Re(Cat(<<Lit(last4), Cls({"/", "-"}), Rep(D, 1, 2), Cls({"/", "-"}), Rep(D, 1, 2)>>)),
       ReI(Cat(<<WordB, Lit(<<"o","n">>), Plus(S), DayMonth, Lit(last4)>>)),
       ReI(Cat(<<WordB, Lit(<<"d","a","t","e","d">>), Plus(S), DayMonth, Lit(last4)>>)) >>

rrn_patterns ==
    << ReI(Cat(<<Lit(<<"R","R","N">>), Plus(S), Opt(Cat(<<Lit(<<"N","o">>), Opt(Lit(<<".">>))>>)), Grp(1, Rep(D, 8, 16))>>)),
       ReI(Cat(<<Lit(<<"R","e","f">>), Plus(S), Opt(Cat(<<Lit(<<"N","o">>), Opt(Lit(<<".">>))>>)), Grp(1, Rep(D, 8, 16))>>)) >>

year_ctx(last4) ==
    << ReI(Cat(<<WordB, Lit(<<"o","n">>), Plus(S), DayMonth, Lit(last4)>>)),
       ReI(Cat(<<WordB, Lit(<<"d","a","t","e","d">>), Plus(S), LazyRep(Dot, 0, -1), Lit(last4)>>)),
       Re(Cat(<<Lit(last4), Alt(<<S, Eol>>)>>)) >>

acct_pattern(last4) == ReI(Cat(<<AcctWord, Rep(Dot, 0, 25), Lit(last4)>>))

\* "if rm and last4 in rm.group(1)"
InRrn(rm, full_message, last4) == rm # Fail /\ Contains(Group(full_message, rm, 1), last4)

\* int(last4) lies in 2000..2099; last4 is made of digits
IsYear(val) == 2000 <= val /\ val <= 2099

is_valid_account_last4(last4, matched_text, full_message) ==
    IF \E k \in 1..4 : Search(date_patterns(last4)[k], full_message) # Fail THEN FALSE
    ELSE IF \E k \in 1..2 : InRrn(Search(rrn_patterns[k], full_message), full_message, last4)
         THEN FALSE
    ELSE IF /\ IsYear(DigitsValue(last4))
            /\ \E k \in 1..3 : Search(year_ctx(last4)[k], full_message) # Fail
            /\ Search(acct_pattern(last4), full_message) = Fail
         THEN FALSE
    ELSE TRUE

\* group 1 of a match when _is_valid_account_last4 accepts it
AccountOf(m, message) ==
    IF m # Fail /\ is_valid_account_last4(Group(message, m, 1), Group0(message, m), message)
    THEN Some(Group(message, m, 1))
    ELSE None

RECURSIVE FirstValidAccount(_, _)
FirstValidAccount(pats, message) ==
    IF pats = <<>> THEN None
    ELSE OrElse(AccountOf(Search(Head(pats), message), message), FirstValidAccount(Tail(pats), message))

BankParser_extract_account_last4(message) == FirstValidAccount(Account_ALL_PATTERNS, message)

\* a variant that gives up at the first match that is no decimal
extract_balance_first_match(message) ==
    IF FirstGroup(Balance_ALL_PATTERNS, message) = None THEN None
    ELSE Decimal(RemoveCommas(FirstGroup(Balance_ALL_PATTERNS, message)[1]))

BankParser_extract_balance(message) == FirstDecimal(Balance_ALL_PATTERNS, 1, message)

\* Rs\.?\s* after an optional colon: ":?\s*Rs\.?\s*"
ColonRs == Cat(<<Opt(Lit(<<":">>)), Star(S), RsDot>>)

BankParser_extract_available_limit(message) ==
    FirstDecimal(
      << ReI(Cat(<<Lit(<<"A","v","a","i","l","a","b","l","e">>), Plus(S), Lit(<<"l","i","m","i","t">>), Plus(S), Lit(<<"R","s">>), Lit(<<".">>), Grp(1, Num)>>)),
         ReI(Cat(<<Lit(<<"A","v","a","i","l","a","b","l","e">>), Plus(S), Lit(<<"l","i","m","i","t">>), ColonRs, Grp(1, Num)>>)),
         ReI(Cat(<<Lit(<<"A","v","l">>), Plus(S), Lit(<<"L","m","t">>), ColonRs, Grp(1, Num)>>)),
         ReI(Cat(<<Lit(<<"A","v","a","i","l">>), Plus(S), Lit(<<"L","i","m","i","t">>), ColonRs, Grp(1, Num)>>)),
         ReI(Cat(<<Lit(<<"A","v","a","i","l","a","b","l","e">>), Plus(S), Lit(<<"C","r","e","d","i","t">>), Plus(S), Lit(<<"L","i","m","i","t">>), ColonRs, Grp(1, Num)>>)),
         ReI(Cat(<<Alt(<<Bol, S>>), Lit(<<"L","i","m","i","t">>), ColonRs, Grp(1, Num)>>)) >>,
      1, message)

BankParser_detect_is_card(message) ==
    LET low == lower(message)
        masked_card_regex ==
            Re(Cat(<<Opt(Alt(<<Lit(<<"x","x">>), Lit(<<"X","X">>), Rep(Lit(<<"*">>), 2, -1)>>)), Rep(D, 4, 4)>>))
    IN  IF ContainsAny(low, <<<<"a","/","c">>, <<"a","c","c","o","u","n","t">>, <<"a","c"," ">>, <<"a","c","c"," ">>, <<"s","a","v","i","n","g"," ","a","c","c","o","u","n","t">>,
                              <<"c","u","r","r","e","n","t"," ","a","c","c","o","u","n","t">>, <<"s","a","v","i","n","g","s"," ","a","/","c">>, <<"c","u","r","r","e","n","t"," ","a","/","c">>>>)
        THEN FALSE
        ELSE IF ContainsAny(low, <<<<"c","a","r","d"," ","e","n","d","i","n","g">>, <<"c","a","r","d"," ","x","x">>, <<"d","e","b","i","t"," ","c","a","r","d">>, <<"c","r","e","d","i","t"," ","c","a","r","d">>,
                                   <<"c","a","r","d"," ","n","o",".">>, <<"c","a","r","d"," ","n","u","m","b","e","r">>, <<"c","a","r","d"," ","*">>, <<"c","a","r","d"," ","x">>>>)
        THEN TRUE
        ELSE Contains(low, <<"e","n","d","i","n","g">>) /\ Search(masked_card_regex, message) # Fail

----------------------------------------------------------------------------
(* Helpers shared by the leaf parsers *)

\* w1\s+w2\s+...: literal words separated by \s+
RECURSIVE Spaced(_)
Spaced(ws) ==
    IF Len(ws) = 1 THEN Lit(ws[1])
    ELSE Cat(<<Lit(ws[1]), Plus(S), Spaced(Tail(ws))>>)

\* \d+(?:,\d{3})*(?:\.\d{lo,2})?
NumGrouped(lo) ==
    Cat(<<Plus(D), Star(Cat(<<Lit(<<",">>), Rep(D, 3, 3)>>)), Opt(Cat(<<Lit(<<".">>), Rep(D, lo, 2)>>))>>)

\* s[-4:] if len(s) >= 4 else s
Last4(s) == IF Len(s) >= 4 THEN SubSeq(s, Len(s) - 3, Len(s)) ELSE s

\* str.isdigit()
IsDigit(s) == s # <<>> /\ \A k \in 1..Len(s) : s[k] \in Digits

\* s.split("@")[0]
BeforeAt(s) ==
    LET ats == {k \in 1..Len(s) : s[k] = "@"}
    IN  IF ats = {} THEN s ELSE SubSeq(s, 1, (CHOOSE k \in ats : \A h \in ats : k <= h) - 1)

\* the first attempt of a chain of "if ...: return x" blocks that returned
RECURSIVE FirstSome(_)
FirstSome(attempts) ==
    IF attempts = <<>> THEN None
    ELSE IF Head(attempts) # None THEN Head(attempts) ELSE FirstSome(Tail(attempts))

\* an exception leaving a step: re.IGNORE_CASE is not an attribute of re
AttributeError == <<"raise", "AttributeError">>

IsRaise(v) == Len(v) = 2

----------------------------------------------------------------------------
(* BaseIndianBankParser *)

is_e_mandate_notification(message) ==
    LET lower_message == lower(message)
    IN  \/ Contains(lower_message, <<"e","-","m","a","n","d","a","t","e">>)
        \/ Contains(lower_message, <<"u","p","i","-","m","a","n","d","a","t","e">>)
        \/ (Contains(lower_message, <<"m","a","n","d","a","t","e">>) /\ Contains(lower_message, <<"s","u","c","c","e","s","s","f","u","l","l","y"," ","c","r","e","a","t","e","d">>))

is_future_debit_notification(message) ==
    LET lower_message == lower(message)
    IN  \/ Contains(lower_message, <<"w","i","l","l"," ","b","e"," ","d","e","b","i","t","e","d">>)
        \/ Contains(lower_message, <<"m","a","n","d","a","t","e"," ","s","e","t"," ","f","o","r">>)
        \/ (Contains(lower_message, <<"u","p","c","o","m","i","n","g">>) /\ Contains(lower_message, <<"m","a","n","d","a","t","e">>))

(* parse_mandate_subscription: None for a message that is no mandate or    *)
(* future debit notice, None when neither INR_PATTERN nor RS_PATTERN gives *)
(* an amount.  The next statement builds the merchant patterns with        *)
(* re.IGNORE_CASE, which the re module does not have: the evaluation       *)
(* raises AttributeError, and the statements after it (merchant, date,     *)
(* UMN, the GenericMandateInfo) are never reached.                         *)
parse_mandate_subscription(message) ==
    IF ~is_e_mandate_notification(message) /\ ~is_future_debit_notification(message) THEN None
    ELSE IF FirstDecimal(<<INR_PATTERN, RS_PATTERN>>, 1, message) = None THEN None
    ELSE AttributeError

----------------------------------------------------------------------------
(* HDFCBankParser *)

\* ^[A-Z]{2}-
DltPrefix == Cat(<<Bol, Rep(Cls(Uppers), 2, 2), Lit(<<"-">>)>>)

HDFC_DLT_PATTERNS ==
    << Re(Cat(<<DltPrefix, Lit(<<"H","D","F","C","B","K">>), Star(Dot), Eol>>)),
       Re(Cat(<<DltPrefix, Lit(<<"H","D","F","C">>), Star(Dot), Eol>>)),
       Re(Cat(<<Bol, Lit(<<"H","D","F","C","-">>), Plus(Cls(Uppers)), Eol>>)),
       Re(Cat(<<DltPrefix, Lit(<<"H","D","F","C","B">>), Star(Dot), Eol>>)) >>

HDFC_can_handle(sender) ==
    LET up == upper(sender)
    IN  \/ up \in {<<"H","D","F","C","B","K">>, <<"H","D","F","C","B","A","N","K">>, <<"H","D","F","C">>, <<"H","D","F","C","B">>}
        \/ \E k \in 1..4 : MatchAtStart(HDFC_DLT_PATTERNS[k], up)

\* [^-]+  [^\.\n]+  [^\.\n]+?  [^\n]+?  [^\s]+  [^@\s]+
NoDash == Plus(NotCls({"-"}))

NoDotNl == Plus(NotCls({".", "\n"}))

LazyNoDotNl == LazyRep(NotCls({".", "\n"}), 1, -1)

LazyNoNl == LazyRep(NotCls({"\n"}), 1, -1)

NoSpace == Plus(NotCls(Spaces))

NoAtSpace == Plus(NotCls(Spaces \cup {"@"}))

HDFC_SALARY_PATTERN ==
    ReI(Cat(<<Lit(<<"f","o","r">>), Plus(S), NoDash, Lit(<<"-">>), NoDash, Lit(<<"-">>), NoDash, Plus(S),
              Plus(Cls(Uppers)), Plus(S), Lit(<<"S","A","L","A","R","Y","-">>), Grp(1, NoDotNl)>>))

HDFC_SIMPLE_SALARY_PATTERN ==
    ReI(Cat(<<Lit(<<"S","A","L","A","R","Y">>), Cls({"-", " "}), Grp(1, LazyNoDotNl),
              Alt(<<Cat(<<Plus(S), Lit(<<"I","n","f","o">>)>>), Eol>>)>>))

HDFC_INFO_PATTERN ==
    ReI(Cat(<<Lit(<<"I","n","f","o",":">>), Star(S), Opt(Lit(<<"U","P","I","/">>)),
              Grp(1, LazyRep(NotCls({"/", ".", "\n"}), 1, -1)), Alt(<<Lit(<<"/">>), Eol>>)>>))

HDFC_VPA_WITH_NAME ==
    ReI(Cat(<<Lit(<<"V","P","A">>), Plus(S), NoAtSpace, Lit(<<"@">>), NoSpace, Star(S),
              Lit(<<"(">>), Grp(1, Plus(NotCls({")"}))), Lit(<<")">>)>>))

HDFC_VPA_PATTERN == ReI(Cat(<<Lit(<<"V","P","A">>), Plus(S), Grp(1, NoAtSpace), Lit(<<"@">>)>>))

HDFC_SPENT_PATTERN ==
    ReI(Cat(<<Lit(<<"a","t">>), Plus(S), Grp(1, LazyNoDotNl), Plus(S), Lit(<<"o","n">>), Plus(S), Rep(D, 2, 2)>>))

HDFC_DEBIT_FOR_PATTERN ==
    ReI(Cat(<<Spaced(<<<<"d","e","b","i","t","e","d">>, <<"f","o","r">>>>), Plus(S), Grp(1, LazyNoDotNl),
              Plus(S), Lit(<<"o","n">>), Plus(S), Rep(D, 2, 2)>>))

HDFC_MANDATE_PATTERN ==
    ReI(Cat(<<Lit(<<"T","o">>), Plus(S), Grp(1, LazyNoNl), Star(S),
              Alt(<<Lit(<<"\n">>), Cat(<<Rep(D, 2, 2), Lit(<<"/">>), Rep(D, 2, 2)>>)>>)>>))

\* the alternatives ending a merchant: (?:\s+w1|\s+w2|...|$)
SpWordsOrEol(ws) ==
    Alt([k \in 1..(Len(ws) + 1) |-> IF k <= Len(ws) THEN Cat(<<Plus(S), Lit(ws[k])>>) ELSE Eol])

\* "if merch: return self.clean_merchant_name(merch)", None when merch is empty
NonEmptyCleaned(merch) == IF merch # <<>> THEN Some(clean_merchant_name(merch)) ELSE None

\* the same on the stripped group 1 of a match
CleanedOf(m, message) == IF m = Fail THEN None ELSE NonEmptyCleaned(Strip(Group(message, m, 1)))

\* m = re.search(p, message); merch = m.group(1).strip(); if merch: return clean_merchant_name(merch)
CleanedGroup(p, message) == CleanedOf(Search(p, message), message)

\* "if m: return self.clean_merchant_name(m.group(1).strip())"
CleanedAny(m, message) ==
    IF m = Fail THEN None ELSE Some(clean_merchant_name(Strip(Group(message, m, 1))))

\* m = p.search(message); if m: return clean_merchant_name(m.group(1).strip())
CleanedMatch(p, message) == CleanedAny(Search(p, message), message)

\* "from hdfc bank card": the text between " at " and " on "
HDFC_from_card(message, low, at_idx, on_idx) ==
    IF Contains(low, <<"f","r","o","m"," ","h","d","f","c"," ","b","a","n","k"," ","c","a","r","d">>) /\ at_idx # 0 /\ on_idx # 0 /\ on_idx > at_idx
    THEN NonEmptyCleaned(Strip(SubSeq(message, at_idx + 4, on_idx - 1)))
    ELSE None

\* "if loc: return f'ATM at {clean_merchant_name(loc)}'"
AtmAt(loc) == IF loc # <<>> THEN Some(<<"A","T","M"," ","a","t"," ">> \o clean_merchant_name(loc)) ELSE None

AtmOf(m, message) == IF m = Fail THEN None ELSE AtmAt(Strip(Group(message, m, 1)))

HDFC_withdrawn(message, low) ==
    IF ~Contains(low, <<"w","i","t","h","d","r","a","w","n">>) THEN None
    ELSE OrElse(AtmOf(Search(ReI(Cat(<<Lit(<<"A","t">>), Plus(S), Opt(Lit(<<"+">>)),
                                       Grp(1, LazyRep(NotCls({"O"}), 1, -1)), Plus(S), Lit(<<"O","n">>)>>)),
                             message), message),
                Some(<<"A","T","M">>))

\* "if vpaname.lower().endswith('qr'): vpaname = vpaname[:-2]"
DropQr(vpaname) ==
    IF Len(vpaname) >= 2 /\ lower(SubSeq(vpaname, Len(vpaname) - 1, Len(vpaname))) = <<"q","r">>
    THEN SubSeq(vpaname, 1, Len(vpaname) - 2)
    ELSE vpaname

\* "if '@' in merch: merch = vpaname"
BlockMerch(merch) == IF Contains(merch, <<"@">>) THEN DropQr(Strip(BeforeAt(merch))) ELSE merch

BlockOf(m, message) ==
    IF m = Fail THEN None ELSE NonEmptyCleaned(BlockMerch(Strip(Group(message, m, 1))))

HDFC_block(message, low) ==
    IF /\ Contains(low, <<"c","a","r","d">>) /\ Contains(low, <<" ","a","t"," ">>)
       /\ (Contains(low, <<"b","l","o","c","k"," ","c","c">>) \/ Contains(low, <<"b","l","o","c","k"," ","p","c","c">>))
    THEN BlockOf(Search(ReI(Cat(<<Lit(<<"a","t">>), Plus(S),
                                  Grp(1, Cat(<<NoAtSpace, Opt(Cat(<<Lit(<<"@">>), NoSpace>>)),
                                               Opt(Cat(<<Plus(S), NoSpace>>))>>)),
                                  Alt(<<Cat(<<Plus(S), Lit(<<"b","y">>), Plus(S)>>),
                                        Cat(<<Plus(S), Lit(<<"o","n">>), Plus(S)>>), Eol>>)>>)), message),
                 message)
    ELSE None

\* "if merch and not merch.isdigit(): return self.clean_merchant_name(merch)"
NonDigitCleaned(merch) ==
    IF merch # <<>> /\ ~IsDigit(merch) THEN Some(clean_merchant_name(merch)) ELSE None

SimpleSalaryOf(m, message) ==
    IF m = Fail THEN None ELSE NonDigitCleaned(Strip(Group(message, m, 1)))

HDFC_salary(message, low) ==
    IF ~(Contains(low, <<"s","a","l","a","r","y">>) /\ Contains(low, <<"d","e","p","o","s","i","t","e","d">>)) THEN None
    ELSE OrElse(CleanedMatch(HDFC_SALARY_PATTERN, message),
                SimpleSalaryOf(Search(HDFC_SIMPLE_SALARY_PATTERN, message), message))

\* "if merch and merch.upper() != 'UPI': return self.clean_merchant_name(merch)"
InfoMerch(merch) ==
    IF merch # <<>> /\ upper(merch) # <<"U","P","I">> THEN Some(clean_merchant_name(merch)) ELSE None

InfoOf(m, message) == IF m = Fail THEN None ELSE InfoMerch(Strip(Group(message, m, 1)))

HDFC_info(message, low) ==
    IF Contains(low, <<"i","n","f","o",":">>) THEN InfoOf(Search(HDFC_INFO_PATTERN, message), message) ELSE None

HDFC_from_vpa(message, low) ==
    IF Contains(low, <<"f","r","o","m"," ","v","p","a">>) /\ Contains(low, <<"c","r","e","d","i","t","e","d">>)
    THEN CleanedGroup(ReI(Cat(<<Lit(<<"f","r","o","m">>), Plus(S), Lit(<<"V","P","A">>), Star(S), Grp(1, NoAtSpace),
                                Lit(<<"@">>), NoSpace, Star(S), Lit(<<"(","U","P","I">>), Plus(S), Plus(D),
                                Lit(<<")">>)>>)), message)
    ELSE None

\* "if len(u) > 3 and not u.isdigit(): return self.clean_merchant_name(u)"
VpaUser(u) == IF Len(u) > 3 /\ ~IsDigit(u) THEN Some(clean_merchant_name(u)) ELSE None

VpaOf(m, message) == IF m = Fail THEN None ELSE VpaUser(Strip(Group(message, m, 1)))

HDFC_vpa(message, low) ==
    IF ~Contains(low, <<"v","p","a">>) THEN None
    ELSE OrElse(HDFC_from_vpa(message, low),
                OrElse(CleanedMatch(HDFC_VPA_WITH_NAME, message),
                       VpaOf(Search(HDFC_VPA_PATTERN, message), message)))

HDFC_towards(message, low) ==
    IF Contains(low, <<"t","o","w","a","r","d","s">>)
    THEN CleanedGroup(ReI(Cat(<<Lit(<<"t","o","w","a","r","d","s">>), Plus(S), Grp(1, LazyNoNl),
                                SpWordsOrEol(<<<<"U","M","R","N">>, <<"I","D",":">>, <<"A","l","e","r","t",":">>>>)>>)), message)
    ELSE None

HDFC_for_colon(message, low) ==
    IF Contains(low, <<"f","o","r",":">>)
    THEN CleanedGroup(ReI(Cat(<<Lit(<<"F","o","r",":">>), Plus(S), Grp(1, LazyNoNl),
                                SpWordsOrEol(<<<<"F","r","o","m">>, <<"V","i","a">>>>)>>)), message)
    ELSE None

HDFC_for_debit(message, low) ==
    IF Contains(low, <<"f","o","r"," ">>) /\ Contains(low, <<"w","i","l","l"," ","b","e"," ","d","e","b","i","t","e","d">>)
    THEN CleanedGroup(ReI(Cat(<<Lit(<<"f","o","r">>), Plus(S), Grp(1, LazyNoNl),
                                SpWordsOrEol(<<<<"I","D",":">>, <<"A","c","t",":">>>>)>>)), message)
    ELSE None

\* the blocks of HDFCBankParser.extract_merchant in their order, on low = message.lower()
HDFC_own_merchant(message, low) ==
    FirstSome(<< HDFC_from_card(message, low, Find(low, <<" ","a","t"," ">>), Find(low, <<" ","o","n"," ">>)),
                 HDFC_withdrawn(message, low),
                 IF Contains(low, <<"a","t","m">>) THEN Some(<<"A","T","M">>) ELSE None,
                 HDFC_block(message, low),
                 HDFC_salary(message, low),
                 HDFC_info(message, low),
                 HDFC_vpa(message, low),
                 IF Contains(low, <<"s","p","e","n","t"," ","o","n"," ","c","a","r","d">>) THEN CleanedMatch(HDFC_SPENT_PATTERN, message) ELSE None,
                 IF Contains(low, <<"d","e","b","i","t","e","d"," ","f","o","r">>) THEN CleanedMatch(HDFC_DEBIT_FOR_PATTERN, message) ELSE None,
                 IF Contains(low, <<"u","p","i"," ","m","a","n","d","a","t","e">>) THEN CleanedMatch(HDFC_MANDATE_PATTERN, message) ELSE None,
                 HDFC_towards(message, low),
                 HDFC_for_colon(message, low),
                 HDFC_for_debit(message, low) >>)

HDFC_extract_merchant(message, sender) ==
    OrElse(HDFC_own_merchant(message, lower(message)), BankParser_extract_merchant(message, sender))

HDFC_extract_transaction_type(message) ==
    LET low == lower(message)
        has(kw) == Contains(low, kw)
    IN  IF is_investment_transaction(low) THEN Some(INVESTMENT)
        ELSE IF has(<<"b","l","o","c","k"," ","c","c">>) \/ has(<<"b","l","o","c","k"," ","p","c","c">>) THEN Some(CREDIT)
        ELSE IF has(<<"s","p","e","n","t"," ","o","n"," ","c","a","r","d">>) /\ ~has(<<"b","l","o","c","k"," ","d","c">>) THEN Some(CREDIT)
        ELSE IF has(<<"p","a","y","m","e","n","t">>) /\ has(<<"c","r","e","d","i","t"," ","c","a","r","d">>) THEN Some(EXPENSE)
        ELSE IF has(<<"t","o","w","a","r","d","s">>) /\ has(<<"c","r","e","d","i","t"," ","c","a","r","d">>) THEN Some(EXPENSE)
        ELSE IF has(<<"s","e","n","t">>) /\ has(<<"f","r","o","m"," ","h","d","f","c">>) THEN Some(EXPENSE)
        ELSE IF has(<<"s","p","e","n","t">>) /\ has(<<"f","r","o","m"," ","h","d","f","c"," ","b","a","n","k"," ","c","a","r","d">>) THEN Some(EXPENSE)
        ELSE IF has(<<"d","e","b","i","t","e","d">>) THEN Some(EXPENSE)
        ELSE IF has(<<"w","i","t","h","d","r","a","w","n">>) /\ ~has(<<"b","l","o","c","k"," ","c","c">>) THEN Some(EXPENSE)
        ELSE IF has(<<"s","p","e","n","t">>) /\ ~has(<<"c","a","r","d">>) THEN Some(EXPENSE)
        ELSE IF ContainsAny(low, <<<<"c","h","a","r","g","e","d">>, <<"p","a","i","d">>, <<"p","u","r","c","h","a","s","e">>>>) THEN Some(EXPENSE)
        ELSE IF ContainsAny(low, <<<<"c","r","e","d","i","t","e","d">>, <<"d","e","p","o","s","i","t","e","d">>, <<"r","e","c","e","i","v","e","d">>, <<"r","e","f","u","n","d">>>>) THEN Some(INCOME)
        ELSE IF has(<<"c","a","s","h","b","a","c","k">>) /\ ~has(<<"e","a","r","n"," ","c","a","s","h","b","a","c","k">>) THEN Some(INCOME)
        ELSE None

HDFC_extract_reference(message) ==
    OrElse(StripOf(FirstGroup(
                 << ReI(Cat(<<Lit(<<"R","e","f">>), Plus(S), Grp(1, Rep(D, 9, 12))>>)),
                    ReI(Cat(<<Spaced(<<<<"U","P","I">>, <<"R","e","f">>, <<"N","o">>>>), Plus(S), Grp(1, Rep(D, 12, 12))>>)),
                    ReI(Cat(<<Spaced(<<<<"R","e","f">>, <<"N","o">>>>), Opt(Lit(<<".">>)), Plus(S), Grp(1, Plus(AlNum))>>)),
                    ReI(Cat(<<Words(<<<<"R","e","f">>, <<"R","e","f","e","r","e","n","c","e">>>>), Plus(Cls(Spaces \cup {":", "."})),
                              Grp(1, Rep(AlNum, 6, -1)),
                              Alt(<<Cat(<<Star(S), Eol>>),
                                    Cat(<<Star(S), Spaced(<<<<"N","o","t">>, <<"Y","o","u">>>>)>>)>>)>>)) >>, message)),
           BankParser_extract_reference(message))

\* (?:HDFC\s+Bank\s+)?A/c\s+(?:XX+)?(\d+)
HdfcAcct ==
    Cat(<<Opt(Cat(<<Spaced(<<<<"H","D","F","C">>, <<"B","a","n","k">>>>), Plus(S)>>)), Lit(<<"A","/","c">>), Plus(S),
          Opt(Cat(<<Lit(<<"X">>), Plus(Cls({"X"}))>>)), Grp(1, Plus(D))>>)

\* x[-4:] under the option, and the same on the digits of x
Last4Of(x) == IF x = None THEN None ELSE Some(Last4(x[1]))

Last4DigitsOf(x) == IF x = None THEN None ELSE Some(Last4(OnlyDigits(x[1])))

HDFC_extract_account_last4(message) ==
    OrElse(FirstGroup(
             << ReI(Cat(<<Lit(<<"C","a","r","d">>), Plus(S), Lit(<<"x">>), Grp(1, Rep(D, 4, 4))>>)),
                ReI(Cat(<<Spaced(<<<<"B","L","O","C","K">>, <<"D","C">>>>), Plus(S), Grp(1, Rep(D, 4, 4))>>)) >>, message),
    OrElse(Last4DigitsOf(FirstGroup(
             << ReI(Cat(<<Spaced(<<<<"H","D","F","C">>, <<"B","a","n","k">>>>), Plus(S),
                          Grp(1, Cat(<<Star(Cls({"X", "*"})), Plus(D)>>))>>)) >>, message)),
    OrElse(Last4Of(FirstGroup(
             << ReI(Cat(<<Spaced(<<<<"d","e","p","o","s","i","t","e","d">>, <<"i","n">>>>), Plus(S), HdfcAcct>>)),
                ReI(Cat(<<Lit(<<"f","r","o","m">>), Plus(S), HdfcAcct>>)),
                ReI(Cat(<<Spaced(<<<<"H","D","F","C">>, <<"B","a","n","k">>, <<"A","/","c">>>>), Plus(S), Grp(1, Plus(D))>>)),
                ReI(Cat(<<Lit(<<"A","/","c">>), Plus(S), Opt(Cat(<<Lit(<<"X">>), Plus(Cls({"X"}))>>)),
                          Grp(1, Plus(D))>>)) >>, message)),
           BankParser_extract_account_last4(message))))

HDFC_extract_balance(message) ==
    OrElse(FirstDecimal(
             << ReI(Cat(<<Spaced(<<<<"A","v","l">>, <<"b","a","l">>>>), Opt(Lit(<<":">>)), Star(S), Lit(<<"I","N","R">>), Star(S),
                          Grp(1, Num)>>)),
                ReI(Cat(<<Spaced(<<<<"A","v","a","i","l","a","b","l","e">>, <<"B","a","l","a","n","c","e">>>>), Opt(Lit(<<":">>)), Star(S), Lit(<<"I","N","R">>),
                          Star(S), Grp(1, Num)>>)),
                ReI(Cat(<<Lit(<<"B","a","l">>), Plus(S), RsDot, Grp(1, Num)>>)) >>, 1, message),
           BankParser_extract_balance(message))

\* a variant that also takes the mention of an amount for a transaction verb
HDFC_is_transaction_message_amounts(message) ==
    LET low == lower(message)
        has(kw) == Contains(low, kw)
    IN  IF is_e_mandate_notification(message) THEN FALSE
        ELSE IF is_future_debit_notification(message) THEN FALSE
        ELSE IF has(<<"b","i","l","l"," ","a","l","e","r","t">>) \/ (has(<<"b","i","l","l">>) /\ has(<<"i","s"," ","d","u","e"," ","o","n">>)) THEN FALSE
        ELSE IF has(<<"p","a","y","m","e","n","t"," ","a","l","e","r","t">>) /\ ~has(<<"w","i","l","l"," ","b","e">>) THEN TRUE
        ELSE IF ContainsAny(low, <<<<"h","a","s"," ","r","e","q","u","e","s","t","e","d">>, <<"p","a","y","m","e","n","t"," ","r","e","q","u","e","s","t">>, <<"t","o"," ","p","a","y",","," ","d","o","w","n","l","o","a","d">>,
                                   <<"c","o","l","l","e","c","t"," ","r","e","q","u","e","s","t">>, <<"i","g","n","o","r","e"," ","i","f"," ","a","l","r","e","a","d","y"," ","p","a","i","d">>>>) THEN FALSE
        ELSE IF has(<<"r","e","c","e","i","v","e","d"," ","t","o","w","a","r","d","s"," ","y","o","u","r"," ","c","r","e","d","i","t"," ","c","a","r","d">>) THEN FALSE
        ELSE IF has(<<"p","a","y","m","e","n","t">>) /\ has(<<"c","r","e","d","i","t","e","d"," ","t","o"," ","y","o","u","r"," ","c","a","r","d">>) THEN FALSE
        ELSE IF ContainsAny(low, <<<<"o","t","p">>, <<"o","n","e"," ","t","i","m","e"," ","p","a","s","s","w","o","r","d">>, <<"v","e","r","i","f","i","c","a","t","i","o","n"," ","c","o","d","e">>, <<"o","f","f","e","r">>,
                                   <<"d","i","s","c","o","u","n","t">>, <<"c","a","s","h","b","a","c","k"," ","o","f","f","e","r">>, <<"w","i","n"," ">>>>) THEN FALSE
        ELSE ContainsAny(low, <<<<"d","e","b","i","t","e","d">>, <<"c","r","e","d","i","t","e","d">>, <<"w","i","t","h","d","r","a","w","n">>, <<"d","e","p","o","s","i","t","e","d">>, <<"s","p","e","n","t">>,
                                <<"r","e","c","e","i","v","e","d">>, <<"t","r","a","n","s","f","e","r","r","e","d">>, <<"p","a","i","d">>, <<"s","e","n","t">>, <<"d","e","d","u","c","t","e","d">>, <<"t","x","n">>, <<"r","s"," ">>>>)

HDFC_is_transaction_message(message) ==
    LET low == lower(message)
        has(kw) == Contains(low, kw)
    IN  IF is_e_mandate_notification(message) THEN FALSE
        ELSE IF is_future_debit_notification(message) THEN FALSE
        ELSE IF has(<<"b","i","l","l"," ","a","l","e","r","t">>) \/ (has(<<"b","i","l","l">>) /\ has(<<"i","s"," ","d","u","e"," ","o","n">>)) THEN FALSE
        ELSE IF has(<<"p","a","y","m","e","n","t"," ","a","l","e","r","t">>) /\ ~has(<<"w","i","l","l"," ","b","e">>) THEN TRUE
        ELSE IF ContainsAny(low, <<<<"h","a","s"," ","r","e","q","u","e","s","t","e","d">>, <<"p","a","y","m","e","n","t"," ","r","e","q","u","e","s","t">>, <<"t","o"," ","p","a","y",","," ","d","o","w","n","l","o","a","d">>,
                                   <<"c","o","l","l","e","c","t"," ","r","e","q","u","e","s","t">>, <<"i","g","n","o","r","e"," ","i","f"," ","a","l","r","e","a","d","y"," ","p","a","i","d">>>>) THEN FALSE
        ELSE IF has(<<"r","e","c","e","i","v","e","d"," ","t","o","w","a","r","d","s"," ","y","o","u","r"," ","c","r","e","d","i","t"," ","c","a","r","d">>) THEN FALSE
        ELSE IF has(<<"p","a","y","m","e","n","t">>) /\ has(<<"c","r","e","d","i","t","e","d"," ","t","o"," ","y","o","u","r"," ","c","a","r","d">>) THEN FALSE
        ELSE IF ContainsAny(low, <<<<"o","t","p">>, <<"o","n","e"," ","t","i","m","e"," ","p","a","s","s","w","o","r","d">>, <<"v","e","r","i","f","i","c","a","t","i","o","n"," ","c","o","d","e">>, <<"o","f","f","e","r">>,
                                   <<"d","i","s","c","o","u","n","t">>, <<"c","a","s","h","b","a","c","k"," ","o","f","f","e","r">>, <<"w","i","n"," ">>>>) THEN FALSE
        ELSE ContainsAny(low, <<<<"d","e","b","i","t","e","d">>, <<"c","r","e","d","i","t","e","d">>, <<"w","i","t","h","d","r","a","w","n">>, <<"d","e","p","o","s","i","t","e","d">>, <<"s","p","e","n","t">>,
                                <<"r","e","c","e","i","v","e","d">>, <<"t","r","a","n","s","f","e","r","r","e","d">>, <<"p","a","i","d">>, <<"s","e","n","t">>, <<"d","e","d","u","c","t","e","d">>, <<"t","x","n">>>>)


----------------------------------------------------------------------------
(* SBIBankParser *)

\* unicodedata.normalize('NFKD', text) with every character above 127 dropped
normalize_unicode_text(text) == SelectSeq(text, LAMBDA c : c \in Ascii)

SBI_can_handle(sender) ==
    LET up == upper(sender)
        pats == << Re(Cat(<<DltPrefix, Lit(<<"S","B","I","B","K","-","S">>), Eol>>)),
                   Re(Cat(<<DltPrefix, Lit(<<"S","B","I","B","K","-">>), Cls({"T", "P", "G"}), Eol>>)),
                   Re(Cat(<<DltPrefix, Lit(<<"S","B","I","B","K">>), Eol>>)),
                   Re(Cat(<<DltPrefix, Lit(<<"S","B","I">>), Eol>>)) >>
    IN  \/ ContainsAny(up, <<<<"S","B","I">>, <<"S","B","I","I","N","B">>, <<"S","B","I","U","P","I">>, <<"S","B","I","C","R","D">>, <<"A","T","M","S","B","I">>, <<"S","B","I"," ","C","A","R","D","S">>>>)
        \/ up \in {<<"S","B","I","B","K">>, <<"S","B","I","B","N","K">>}
        \/ \E k \in 1..4 : MatchAtStart(pats[k], up)

is_credit_card_message(sender, message) ==
    LET up_s == upper(sender)
    IN  \/ Contains(up_s, <<"S","B","I","C","R","D">>) \/ Contains(up_s, <<"S","B","I"," ","C","A","R","D","S">>)
        \/ Contains(lower(message), <<"c","r","e","d","i","t"," ","c","a","r","d">>)

extract_credit_card_last4(message) ==
    FirstGroup(<< ReI(Cat(<<Spaced(<<<<"e","n","d","i","n","g">>, <<"w","i","t","h">>>>), Plus(S), Grp(1, Rep(D, 4, 4))>>)),
                  ReI(Cat(<<Lit(<<"e","n","d","i","n","g">>), Plus(S), Grp(1, Rep(D, 4, 4))>>)) >>, message)

\* m = re.search(p, message); mer = clean_merchant_name(m.group(1)[.strip()]);
\* if is_valid_merchant_name(mer): the merchant
ValidOf(m, message, strip) ==
    IF m = Fail THEN None
    ELSE ValidOrNone(clean_merchant_name(IF strip THEN Strip(Group(message, m, 1))
                                         ELSE Group(message, m, 1)))

ValidCleaned(p, message, strip) == ValidOf(Search(p, message), message, strip)

extract_credit_card_merchant(message) ==
    ValidCleaned(ReI(Cat(<<Lit(<<"a","t">>), Plus(S),
                           Grp(1, LazyRep(Cls(Uppers \cup Lowers \cup Digits \cup Spaces
                                              \cup {"&", ".", "_", "-"}), 1, -1)),
                           Plus(S), Lit(<<"o","n">>), Plus(S), D>>)), message, TRUE)

SBI_extract_available_limit(message) ==
    OrElse(FirstDecimal(
                 << ReI(Cat(<<Spaced(<<<<"a","v","a","i","l","a","b","l","e">>, <<"l","i","m","i","t">>, <<"i","s">>>>), Plus(S), RsDot, Grp(1, Num)>>)),
                    ReI(Cat(<<Spaced(<<<<"Y","o","u","r">>, <<"a","v","a","i","l","a","b","l","e">>, <<"l","i","m","i","t">>, <<"i","s">>>>), Plus(S), RsDot,
                              Grp(1, Num)>>)) >>, 1, message),
           BankParser_extract_available_limit(message))

\* (?:has\s+been\s+)?
HasBeen == Opt(Cat(<<Spaced(<<<<"h","a","s">>, <<"b","e","e","n">>>>), Plus(S)>>))

\* [\w.-]+@[\w]+
Vpa(g) == Cat(<<g, Lit(<<"@">>), Plus(Cls(WordChars))>>)

SBI_extract_amount(message) ==
    LET n2 == Grp(1, NumGrouped(2))
    IN  OrElse(FirstDecimal(
                 << ReI(Cat(<<Spaced(<<<<"t","r","a","n","s","a","c","t","i","o","n">>, <<"n","u","m","b","e","r">>>>), Plus(S), Plus(D), Plus(S), Lit(<<"f","o","r">>),
                              Plus(S), RsDot, Grp(1, Num)>>)),
                    ReI(Cat(<<Spaced(<<<<"p","a","y","m","e","n","t">>, <<"o","f">>>>), Plus(S), RsDot, Grp(1, Num)>>)),
                    ReI(Cat(<<RsDot, Grp(1, Num), Plus(S), Lit(<<"s","p","e","n","t">>)>>)),
                    ReI(Cat(<<Spaced(<<<<"d","e","b","i","t","e","d">>, <<"b","y">>>>), Plus(S), Grp(1, NumGrouped(1))>>)),
                    ReI(Cat(<<Spaced(<<<<"c","r","e","d","i","t","e","d">>, <<"b","y">>>>), Plus(S), RsDot, Grp(1, NumGrouped(1))>>)),
                    ReI(Cat(<<RsDot, n2, Plus(S), HasBeen, Lit(<<"d","e","b","i","t","e","d">>)>>)),
                    ReI(Cat(<<Lit(<<"I","N","R">>), Star(S), n2, Plus(S), HasBeen, Lit(<<"d","e","b","i","t","e","d">>)>>)),
                    ReI(Cat(<<RsDot, n2, Plus(S), HasBeen, Lit(<<"c","r","e","d","i","t","e","d">>)>>)),
                    ReI(Cat(<<Lit(<<"I","N","R">>), Star(S), n2, Plus(S), HasBeen, Lit(<<"c","r","e","d","i","t","e","d">>)>>)),
                    ReI(Cat(<<Lit(<<"w","i","t","h","d","r","a","w","n">>), Plus(S), RsDot, n2>>)),
                    ReI(Cat(<<Lit(<<"t","r","a","n","s","f","e","r","r","e","d">>), Plus(S), RsDot, n2>>)),
                    ReI(Cat(<<Spaced(<<<<"p","a","i","d">>, <<"t","o">>>>), Plus(S),
                              Vpa(Plus(Cls(WordChars \cup {".", "-"}))), Plus(S), RsDot, n2>>)),
                    ReI(Cat(<<Spaced(<<<<"A","T","M">>, <<"w","i","t","h","d","r","a","w","a","l">>, <<"o","f">>>>), Plus(S), RsDot, n2>>)),
                    ReI(Cat(<<Spaced(<<<<"Y","o","n","o">>, <<"C","a","s","h">>>>), Plus(S), RsDot, n2>>)) >>, 1, message),
               BankParser_extract_amount(message))

SBI_extract_transaction_type(message) ==
    LET low == lower(message)
    IN  IF ContainsAny(low, <<<<"w","i","t","h","d","r","a","w","n">>, <<"t","r","a","n","s","f","e","r","r","e","d">>, <<"p","a","i","d"," ","t","o">>, <<"a","t","m"," ","w","i","t","h","d","r","a","w","a","l">>,
                              <<"b","y"," ","s","b","i"," ","d","e","b","i","t"," ","c","a","r","d">>>>)
        THEN Some(EXPENSE)
        ELSE BankParser_extract_transaction_type(message)

\* f"{prefix}{x}" under the option
Prefixed(prefix, x) == IF x # None THEN Some(prefix \o x[1]) ELSE None

SBI_extract_merchant(message, sender) ==
    LET ref_end == Alt(<<Cat(<<Plus(S), Lit(<<"R","e","f">>)>>), Cat(<<Plus(S), Lit(<<"r","e","f">>)>>), Eol>>)
        m1 == ValidCleaned(ReI(Cat(<<Spaced(<<<<"d","o","n","e">>, <<"a","t">>>>), Plus(S), Grp(1, LazyNoDotNl),
                                     Alt(<<Cat(<<Plus(S), Lit(<<"o","n">>), Plus(S)>>), Eol>>)>>)), message, TRUE)
        m2 == ValidCleaned(ReI(Cat(<<Spaced(<<<<"t","r","f">>, <<"t","o">>>>), Plus(S), Grp(1, LazyNoDotNl), ref_end>>)),
                           message, TRUE)
        m3 == ValidCleaned(ReI(Cat(<<Spaced(<<<<"t","r","a","n","s","f","e","r">>, <<"f","r","o","m">>>>), Plus(S), Grp(1, LazyNoDotNl),
                                     ref_end>>)), message, TRUE)
        m4 == ValidCleaned(ReI(Cat(<<Spaced(<<<<"p","a","i","d">>, <<"t","o">>>>), Plus(S),
                                     Vpa(Grp(1, Plus(Cls(WordChars \cup {".", "-"}))))>>)), message, FALSE)
        m5 == FirstGroup(<<ReI(Cat(<<Spaced(<<<<"w","/","d","@","S","B","I">>, <<"A","T","M">>>>), Plus(S), Grp(1, Plus(AlNum))>>))>>,
                         message)
        m6 == ValidCleaned(ReI(Cat(<<Lit(<<"A","T","M">>), Plus(S), Opt(Cat(<<Lit(<<"w","i","t","h","d","r","a","w","a","l">>), Plus(S)>>)),
                                     Opt(Cat(<<Lit(<<"a","t">>), Plus(S)>>)), Grp(1, LazyNoDotNl),
                                     Alt(<<Cat(<<Plus(S), Lit(<<"o","n">>)>>), Cat(<<Plus(S), Lit(<<"A","v","l">>)>>)>>)>>)),
                           message, FALSE)
        m7 == ValidCleaned(ReI(Cat(<<Words(<<<<"N","E","F","T">>, <<"I","M","P","S">>, <<"R","T","G","S">>>>), Star(NotCls({":"})), Lit(<<":">>),
                                     Star(S), Grp(1, LazyNoDotNl),
                                     Alt(<<Cat(<<Plus(S), Lit(<<"R","e","f">>)>>), Cat(<<Plus(S), Lit(<<"o","n">>)>>),
                                           Eol>>)>>)), message, FALSE)
    IN  OrElse(FirstSome(<<m1, m2, m3, m4, Prefixed(<<"Y","O","N","O"," ","C","a","s","h"," ","A","T","M"," ","-"," ">>, m5), Prefixed(<<"A","T","M"," ","-"," ">>, m6), m7>>),
               BankParser_extract_merchant(message, sender))

\* the card of "by SBI Debit Card <card>": its four digits, the last four of its digits, or itself
DebitCardLast4(x) ==
    IF x = None THEN None
    ELSE IF IsDigit(x[1]) /\ Len(x[1]) = 4 THEN x
    ELSE IF Len(OnlyDigits(x[1])) >= 4 THEN Some(Last4(OnlyDigits(x[1])))
    ELSE x

SBI_extract_account_last4(message) ==
    OrElse(DebitCardLast4(FirstGroup(
             <<ReI(Cat(<<Spaced(<<<<"b","y">>, <<"S","B","I">>, <<"D","e","b","i","t">>, <<"C","a","r","d">>>>), Plus(S),
                         Grp(1, Plus(Cls(WordChars \cup {"-"})))>>))>>, message)),
    OrElse(Last4DigitsOf(FirstGroup(
             <<ReI(Cat(<<Lit(<<"A","/","c">>), Plus(S), Grp(1, Cat(<<Star(Cls({"X", "*"})), Plus(D)>>))>>))>>,
             message)),
    OrElse(FirstGroup(
             << ReI(Cat(<<Spaced(<<<<"A","/","c">>, <<"e","n","d","i","n","g">>>>), Plus(S), Grp(1, Rep(D, 4, 4))>>)),
                ReI(Cat(<<Spaced(<<<<"a","/","c">>, <<"n","o">>>>), Opt(Lit(<<".">>)), Plus(S),
                          Opt(Alt(<<Lit(<<"X","X">>), Cat(<<Lit(<<"X">>), Plus(Cls({"*"}))>>)>>)),
                          Grp(1, Rep(D, 4, 4))>>)) >>, message),
           BankParser_extract_account_last4(message))))

SBI_extract_balance(message) ==
    LET n2 == Grp(1, NumGrouped(2))
    IN  OrElse(FirstDecimal(
                 << ReI(Cat(<<Spaced(<<<<"Y","o","u","r">>, <<"u","p","d","a","t","e","d">>, <<"a","v","a","i","l","a","b","l","e">>, <<"b","a","l","a","n","c","e">>, <<"i","s">>>>), Plus(S),
                              RsDot, n2>>)),
                    ReI(Cat(<<Spaced(<<<<"A","v","l">>, <<"B","a","l">>>>), Plus(S), RsDot, n2>>)),
                    ReI(Cat(<<Spaced(<<<<"A","v","a","i","l","a","b","l","e">>, <<"B","a","l","a","n","c","e">>>>), Opt(Lit(<<":">>)), Plus(S), RsDot, n2>>)),
                    ReI(Cat(<<Lit(<<"B","a","l">>), Opt(Lit(<<":">>)), Plus(S), RsDot, n2>>)) >>, 1, message),
               BankParser_extract_balance(message))

SBI_extract_reference(message) ==
    LET w == Plus(Cls(WordChars))
    IN  OrElse(FirstGroup(
                 << ReI(Cat(<<Spaced(<<<<"t","r","a","n","s","a","c","t","i","o","n">>, <<"n","u","m","b","e","r">>>>), Plus(S),
                              Grp(1, Plus(Cls(WordChars \cup {"-"})))>>)),
                    ReI(Cat(<<Spaced(<<<<"R","e","f">>, <<"N","o">>>>), Opt(Lit(<<".">>)), Star(S), Grp(1, w)>>)),
                    ReI(Cat(<<Lit(<<"T","x","n","#">>), Star(S), Grp(1, w)>>)),
                    ReI(Cat(<<Spaced(<<<<"t","r","a","n","s","a","c","t","i","o","n">>, <<"I","D">>>>), Opt(Lit(<<":">>)), Star(S), Grp(1, w)>>)) >>,
                 message),
               BankParser_extract_reference(message))

is_emi_mandate_notification(message) ==
    LET low == lower(message)
    IN  Contains(low, <<"e","-","m","a","n","d","a","t","e">>) \/ Contains(low, <<"e"," ","m","a","n","d","a","t","e">>)

is_upi_mandate_notification(message) ==
    LET low == lower(message)
    IN  \/ Contains(low, <<"u","p","i","-","m","a","n","d","a","t","e">>) \/ Contains(low, <<"u","p","i"," ","m","a","n","d","a","t","e">>)
        \/ (Contains(low, <<"m","a","n","d","a","t","e">>) /\ Contains(low, <<"c","r","e","a","t","e","d">>) /\ Contains(low, <<"u","p","i">>))

SBI_is_transaction_message(message) ==
    LET norm == normalize_unicode_text(message)
        low == lower(norm)
    IN  IF Contains(low, <<"e","-","s","t","a","t","e","m","e","n","t"," ","o","f"," ","s","b","i"," ","c","r","e","d","i","t"," ","c","a","r","d">>) THEN FALSE
        ELSE IF Contains(low, <<"i","s"," ","d","u","e"," ","f","o","r">>) THEN FALSE
        ELSE IF ContainsAny(low, <<<<"s","b","i"," ","c","a","r","d"," ","a","p","p","l","i","c","a","t","i","o","n">>, <<"p","r","o","c","e","s","s"," ","y","o","u","r"," ","a","p","p",".","n","o">>,
                                   <<"t","r","a","c","k"," ","y","o","u","r"," ","a","p","p","l","i","c","a","t","i","o","n"," ","s","t","a","t","u","s">>>>) THEN FALSE
        ELSE IF is_emi_mandate_notification(norm) \/ is_upi_mandate_notification(norm) THEN FALSE
        ELSE IF Contains(low, <<"b","y"," ","s","b","i"," ","d","e","b","i","t"," ","c","a","r","d">>) THEN TRUE
        ELSE IF Contains(low, <<"s","p","e","n","t">>) /\ Contains(low, <<"c","r","e","d","i","t"," ","c","a","r","d">>) THEN TRUE
        ELSE BankParser_is_transaction_message(norm)

----------------------------------------------------------------------------
(* CanaraBankParser *)

Canara_can_handle(sender) ==
    LET norm == upper(sender)
    IN  Contains(norm, <<"C","A","N","B","N","K">>) \/ Contains(norm, <<"C","A","N","A","R","A">>)

\* [\d,]+(?:\.\d{2})? is the pattern Num
Canara_extract_amount(message) ==
    OrElse(FirstDecimal(
                 << ReI(Cat(<<RsDot, Grp(1, Num), Plus(S), Lit(<<"p","a","i","d">>)>>)),
                    ReI(Cat(<<Lit(<<"I","N","R">>), Plus(S), Grp(1, Num), Plus(S),
                              Spaced(<<<<"h","a","s">>, <<"b","e","e","n">>, <<"D","E","B","I","T","E","D">>>>)>>)) >>, 1, message),
           BankParser_extract_amount(message))

Canara_extract_merchant(message, sender) ==
    OrElse(ValidCleaned(ReI(Cat(<<S, Lit(<<"t","o">>), Plus(S), Grp(1, LazyRep(NotCls({","}), 1, -1)),
                                      Alt(<<Cat(<<Lit(<<",">>), Star(S), Lit(<<"U","P","I">>)>>), Lit(<<".">>),
                                            Lit(<<"-","C","a","n","a","r","a">>)>>)>>)), message, TRUE),
           IF Contains(upper(message), <<"D","E","B","I","T","E","D">>) THEN Some(<<"C","a","n","a","r","a"," ","B","a","n","k"," ","D","e","b","i","t">>)
           ELSE BankParser_extract_merchant(message, sender))

Canara_extract_account_last4(message) ==
    OrElse(FirstGroup(<<ReI(Cat(<<Words(<<<<"a","c","c","o","u","n","t">>, <<"A","/","C">>>>), Plus(S),
                                      Opt(Alt(<<Lit(<<"X","X">>), Cat(<<Lit(<<"X">>), Plus(Cls({"*"}))>>)>>)),
                                      Grp(1, Rep(D, 3, 4))>>))>>, message),
           BankParser_extract_account_last4(message))

Canara_extract_balance(message) ==
    OrElse(FirstDecimal(<<ReI(Cat(<<Opt(Cat(<<Lit(<<"T","o","t","a","l">>), Plus(S)>>)), Lit(<<"A","v","a","i","l">>),
                                        Opt(Lit(<<".">>)), Lit(<<"b","a","l">>), Plus(S), Lit(<<"I","N","R">>), Plus(S),
                                        Grp(1, Num)>>))>>, 1, message),
           BankParser_extract_balance(message))

Canara_extract_reference(message) ==
    OrElse(FirstGroup(<<ReI(Cat(<<Spaced(<<<<"U","P","I">>, <<"R","e","f">>>>), Plus(S), Grp(1, Plus(D))>>))>>, message),
           BankParser_extract_reference(message))

Canara_is_transaction_message(message) ==
    LET low == lower(message)
    IN  IF Contains(low, <<"f","a","i","l","e","d"," ","d","u","e"," ","t","o">>) THEN FALSE
        ELSE IF ContainsAny(low, <<<<"p","a","i","d"," ","t","h","r","u">>, <<"h","a","s"," ","b","e","e","n"," ","d","e","b","i","t","e","d">>, <<"h","a","s"," ","b","e","e","n"," ","c","r","e","d","i","t","e","d">>>>) THEN TRUE
        ELSE BankParser_is_transaction_message(message)

----------------------------------------------------------------------------
(* UtkarshBankParser *)

Utkarsh_can_handle(sender) ==
    LET up == upper(sender)
    IN  Contains(up, <<"U","T","K","S","P","R">>) \/ Contains(up, <<"U","T","K","A","R","S","H">>) \/ Contains(up, <<"U","T","K","S","F","B">>)

\* "if not re.match(r'[x0-9]+', mer): return self.clean_merchant_name(mer)"
UpiMer(mer) ==
    IF ~MatchAtStart(Re(Plus(Cls(Digits \cup {"x"}))), mer) THEN Some(clean_merchant_name(mer)) ELSE None

UpiMerOf(m, message) == IF m = Fail THEN None ELSE UpiMer(Strip(Group(message, m, 1)))

\* "if mer.upper() not in ('UPI', 'INR'): return self.clean_merchant_name(mer)"
ForMer(mer) == IF upper(mer) \notin {<<"U","P","I">>, <<"I","N","R">>} THEN Some(clean_merchant_name(mer)) ELSE None

ForMerOf(m, message) == IF m = Fail THEN None ELSE ForMer(Strip(Group(message, m, 1)))

\* "super().extract_merchant(message, sender) or 'Utkarsh SuperCard'"
OrDefault(x, d) == IF x # None /\ x # Some(<<>>) THEN x ELSE Some(d)

\* the dash class of the first pattern holds "-" and three characters above 127
Utkarsh_extract_merchant(message, sender) ==
    OrElse(UpiMerOf(Search(ReI(Cat(<<Spaced(<<<<"f","o","r">>, <<"U","P","I">>>>), Star(S), Cls({"-"}), Star(S),
                                     Grp(1, Plus(NotCls(Spaces \cup {"."})))>>)), message), message),
    OrElse(ForMerOf(Search(ReI(Cat(<<Lit(<<"f","o","r">>), Plus(S),
                                     Grp(1, Cat(<<NotCls(Digits), LazyRep(NotCls(Spaces), 1, -1)>>)),
                                     Alt(<<Cat(<<Plus(S), Lit(<<"o","n">>), Plus(S)>>),
                                           Cat(<<Plus(S), Lit(<<"a","t">>), Plus(S)>>), Eol>>)>>)), message),
                    message),
           IF Contains(lower(message), <<"s","u","p","e","r","c","a","r","d">>) /\ Contains(lower(message), <<"u","p","i">>)
           THEN Some(<<"U","P","I"," ","P","a","y","m","e","n","t">>)
           ELSE OrDefault(BankParser_extract_merchant(message, sender), <<"U","t","k","a","r","s","h"," ","S","u","p","e","r","C","a","r","d">>)))

Utkarsh_extract_transaction_type(message) == Some(CREDIT)

Utkarsh_extract_account_last4(message) ==
    OrElse(FirstGroup(
                 << ReI(Cat(<<Lit(<<"S","u","p","e","r","C","a","r","d">>), Plus(S), Star(Cls({"x", "X", "*"})), Grp(1, Rep(D, 4, 4))>>)),
                    ReI(Cat(<<Words(<<<<"a","c","c","o","u","n","t">>, <<"a","/","c">>>>), Plus(S), Star(Cls({"x", "X", "*"})),
                              Grp(1, Rep(D, 4, 4))>>)) >>, message),
           BankParser_extract_account_last4(message))

----------------------------------------------------------------------------
(* BandhanBankParser *)

Bandhan_can_handle(sender) ==
    LET s == upper(sender)
        tail == Cat(<<Opt(Lit(<<"-","S">>)), Eol>>)
    IN  \/ Contains(s, <<"B","A","N","D","H","A","N">>)
        \/ MatchAtStart(Re(Cat(<<DltPrefix, Lit(<<"B","D","N","S","M","S">>), tail>>)), s)
        \/ MatchAtStart(Re(Cat(<<DltPrefix, Lit(<<"B","A","N","D","H","N">>), tail>>)), s)

\* the first statement evaluates re.IGNORE_CASE, which the re module does not have
Bandhan_extract_merchant(message, sender) == AttributeError
----------------------------------------------------------------------------
(* UAEBankParser, the base of the Gulf parsers *)

\* [A-Z]{3}
Iso == Rep(Cls(Uppers), 3, 3)

\* pattern.search(text, pos): the leftmost match that starts at pos or later
SearchFrom(p, text, pos) ==
    MatchAt(p, text, MinOr({i \in pos..(Len(text) + 1) : Match(<<p.re>>, p.ic, text, i, NoCaps) # Fail}, 0))

contains_card_purchase(message) ==
    \/ Contains(message, <<"C","r","e","d","i","t"," ","C","a","r","d"," ","P","u","r","c","h","a","s","e">>) \/ Contains(message, <<"D","e","b","i","t"," ","C","a","r","d"," ","P","u","r","c","h","a","s","e">>)
    \/ Contains(lower(message), <<"c","r","e","d","i","t"," ","c","a","r","d"," ","p","u","r","c","h","a","s","e">>)
    \/ Contains(lower(message), <<"d","e","b","i","t"," ","c","a","r","d"," ","p","u","r","c","h","a","s","e">>)

is_month_abbreviation(code) ==
    code \in {<<"J","A","N">>, <<"F","E","B">>, <<"M","A","R">>, <<"A","P","R">>, <<"M","A","Y">>, <<"J","U","N">>,
              <<"J","U","L">>, <<"A","U","G">>, <<"S","E","P">>, <<"O","C","T">>, <<"N","O","V">>, <<"D","E","C">>}

\* str.isalpha()
IsAlpha(s) == s # <<>> /\ \A k \in 1..Len(s) : s[k] \in Uppers \cup Lowers

UAE_currency_patterns ==
    << ReI(Cat(<<Lit(<<"A","m","o","u","n","t">>), Plus(S), Grp(1, Iso)>>)),
       ReI(Cat(<<WordB, Grp(1, Iso), Plus(S), Num>>)),
       ReI(Cat(<<Lit(<<"f","o","r">>), Plus(S), Grp(1, Iso), Plus(S), Num>>)),
       ReI(Cat(<<Lit(<<"o","f">>), Plus(S), Grp(1, Iso), Plus(S), Num>>)),
       ReI(Cat(<<Iso, Plus(S), Grp(1, Iso)>>)) >>

\* for match in re.finditer(p, message): the first group that is a code and no month
RECURSIVE CurrencyIter(_, _, _)

CurrencyAt(p, message, m) ==
    IF m = Fail THEN None
    ELSE IF /\ Group(message, m, 1) # <<>>
            /\ Len(upper(Group(message, m, 1))) = 3
            /\ IsAlpha(upper(Group(message, m, 1)))
            /\ ~is_month_abbreviation(upper(Group(message, m, 1)))
         THEN Some(upper(Group(message, m, 1)))
         ELSE CurrencyIter(p, message, IF m.e > m.s THEN m.e ELSE m.e + 1)

CurrencyIter(p, message, pos) == CurrencyAt(p, message, SearchFrom(p, message, pos))

RECURSIVE FirstCurrency(_, _)
FirstCurrency(pats, message) ==
    IF pats = <<>> THEN None
    ELSE OrElse(CurrencyIter(Head(pats), message, 1), FirstCurrency(Tail(pats), message))

\* the final fallback: m.group(1).upper() unless it is a month
FallbackCode(code) == IF code # None /\ ~is_month_abbreviation(code[1]) THEN code ELSE None

UAE_extract_currency(message) ==
    OrElse(FirstCurrency(UAE_currency_patterns, message),
           FallbackCode(UpperOf(GroupOf(Search(ReI(Cat(<<WordB, Grp(1, Iso), Plus(S), D>>)), message),
                                        message, 1))))

UAE_amount_patterns ==
    << ReI(Cat(<<Words(<<<<"p","u","r","c","h","a","s","e"," ","o","f">>, <<"t","r","a","n","s","f","e","r"," ","o","f">>, <<"a","m","o","u","n","t">>, <<"f","o","r">>, <<"o","f">>>>), Plus(S),
                 Grp(1, Iso), Plus(S), Grp(2, Num)>>)),
       ReI(Cat(<<Grp(1, Iso), Plus(S), Grp(2, Num)>>)),
       ReI(Cat(<<Grp(1, Iso), Plus(S), Plus(Cls({"*"})), Grp(2, Num)>>)) >>

\* amount_str with its "*" removed; a string left empty or "." is skipped
Unmasked(amount_str) ==
    IF Contains(amount_str, <<"*">>)
    THEN IF SelectSeq(amount_str, LAMBDA c : c # "*") \in {<<>>, <<".">>} THEN None
         ELSE Decimal(SelectSeq(amount_str, LAMBDA c : c # "*"))
    ELSE Decimal(amount_str)

\* one round of the loop: a month in group 1 is skipped, group 2 is the amount
UAE_amount_of(m, message) ==
    IF m = Fail THEN None
    ELSE IF is_month_abbreviation(upper(Group(message, m, 1))) THEN None
    ELSE Unmasked(RemoveCommas(Group(message, m, 2)))

RECURSIVE UAE_first_amount(_, _)
UAE_first_amount(pats, message) ==
    IF pats = <<>> THEN None
    ELSE OrElse(UAE_amount_of(Search(Head(pats), message), message),
                UAE_first_amount(Tail(pats), message))

UAE_extract_amount(message) ==
    OrElse(UAE_first_amount(UAE_amount_patterns, message), BankParser_extract_amount(message))

UAE_extract_transaction_type(message) ==
    LET low == lower(message)
    IN  IF Contains(low, <<"c","r","e","d","i","t"," ","c","a","r","d"," ","p","u","r","c","h","a","s","e">>) THEN Some(CREDIT)
        ELSE IF contains_card_purchase(message) THEN Some(EXPENSE)
        ELSE IF Contains(low, <<"c","h","e","q","u","e"," ","c","r","e","d","i","t","e","d">>) THEN Some(INCOME)
        ELSE IF Contains(low, <<"c","h","e","q","u","e"," ","r","e","t","u","r","n","e","d">>) THEN Some(EXPENSE)
        ELSE IF \/ Contains(low, <<"a","t","m"," ","c","a","s","h"," ","w","i","t","h","d","r","a","w","a","l">>)
                \/ (Contains(low, <<"a","t","m">>) /\ Contains(low, <<"w","i","t","h","d","r","a","w","n">>))
        THEN Some(EXPENSE)
        ELSE IF \/ Contains(low, <<"i","n","w","a","r","d"," ","r","e","m","i","t","t","a","n","c","e">>) \/ Contains(low, <<"c","a","s","h"," ","d","e","p","o","s","i","t">>)
                \/ Contains(low, <<"h","a","s"," ","b","e","e","n"," ","c","r","e","d","i","t","e","d">>) \/ Contains(low, <<"i","s"," ","c","r","e","d","i","t","e","d">>)
        THEN Some(INCOME)
        ELSE IF Contains(low, <<"o","u","t","w","a","r","d"," ","r","e","m","i","t","t","a","n","c","e">>) \/ Contains(low, <<"p","a","y","m","e","n","t"," ","i","n","s","t","r","u","c","t","i","o","n","s">>)
        THEN Some(EXPENSE)
        ELSE IF Contains(low, <<"f","u","n","d","s"," ","t","r","a","n","s","f","e","r"," ","r","e","q","u","e","s","t">>) THEN Some(TRANSFER)
        ELSE IF Contains(low, <<"h","a","s"," ","b","e","e","n"," ","p","r","o","c","e","s","s","e","d">>) THEN Some(EXPENSE)
        ELSE IF /\ Contains(low, <<"c","r","e","d","i","t">>) /\ ~Contains(low, <<"c","r","e","d","i","t"," ","c","a","r","d">>)
                /\ ~Contains(low, <<"d","e","b","i","t">>) /\ ~Contains(low, <<"p","u","r","c","h","a","s","e">>)
                /\ ~Contains(low, <<"p","a","y","m","e","n","t">>)
        THEN Some(INCOME)
        ELSE IF Contains(low, <<"d","e","b","i","t">>) /\ ~Contains(low, <<"c","r","e","d","i","t">>) THEN Some(EXPENSE)
        ELSE IF Contains(low, <<"p","u","r","c","h","a","s","e">>) THEN Some(EXPENSE)
        ELSE IF Contains(low, <<"p","a","y","m","e","n","t">>) THEN Some(EXPENSE)
        ELSE BankParser_extract_transaction_type(message)

----------------------------------------------------------------------------
(* EmiratesNBDParser, a leaf of UAEBankParser *)

\* re.sub(r"\s+", "", s)
RemoveSpaces(s) == SelectSeq(s, LAMBDA c : c \notin Spaces)

ENBD_can_handle(sender) ==
    ContainsAny(RemoveSpaces(upper(sender)), <<<<"E","M","I","R","A","T","E","S","N","B","D">>, <<"E","N","B","D">>, <<"E","M","I","R","A","T","E","S","N","B">>>>)

ENBD_is_transaction_message(message) ==
    ContainsAny(lower(message),
                <<<<"p","u","r","c","h","a","s","e"," ","o","f">>, <<"d","e","b","i","t","e","d">>, <<"c","r","e","d","i","t","e","d">>, <<"w","i","t","h","d","r","a","w","n">>, <<"d","e","p","o","s","i","t","e","d">>, <<"t","r","a","n","s","f","e","r">>>>)

ENBD_extract_merchant(message, sender) ==
    OrElse(CleanedGroup(ReI(Cat(<<Lit(<<"a","t">>), Plus(S), Grp(1, LazyRep(Dot, 1, -1)),
                                  Alt(<<Cat(<<Lit(<<".">>), Star(S), Lit(<<"A","v","l">>)>>), Eol>>)>>)),
                        message),
           CleanedGroup(ReI(Cat(<<Lit(<<"t","o">>), Plus(S),
                                  Grp(1, Cat(<<Cls(Uppers),
                                               LazyRep(Cls(Uppers \cup Digits \cup Spaces), 1, -1)>>)),
                                  Alt(<<Cat(<<Plus(S), Lit(<<"o","n">>)>>), Cat(<<Plus(S), Lit(<<"(">>)>>),
                                        Eol>>)>>)),
                        message))

ENBD_extract_account_last4(message) ==
    OrElse(GroupOf(Search(ReI(Cat(<<Lit(<<"e","n","d","i","n","g">>), Plus(S), Grp(1, Rep(D, 4, 4))>>)), message),
                   message, 1),
           GroupOf(Search(Re(Cat(<<Rep(Cls({"x", "X"}), 4, 4), Grp(1, Rep(D, 4, 4))>>)), message),
                   message, 1))

\* \s*([A-Z]{3})\s+([\d,]+(?:\.\d{2})?)
CodeAmount == Cat(<<Star(S), Grp(1, Iso), Plus(S), Grp(2, Num)>>)

\* (?:\s+is)?
OptIs == Opt(Cat(<<Plus(S), Lit(<<"i","s">>)>>))

ENBD_extract_balance(message) ==
    OrElse(FirstDecimal(
               << ReI(Cat(<<Alt(<<Spaced(<<<<"A","v","l">>, <<"B","a","l">>>>), Spaced(<<<<"A","v","a","i","l","a","b","l","e">>, <<"B","a","l","a","n","c","e">>>>)>>),
                            OptIs, CodeAmount>>)),
                  ReI(Cat(<<Spaced(<<<<"A","v","a","i","l","a","b","l","e">>, <<"B","a","l","a","n","c","e",":">>>>), CodeAmount>>)) >>,
               2, message),
           BankParser_extract_balance(message))

ENBD_extract_available_limit(message) ==
    OrElse(FirstDecimal(
               << ReI(Cat(<<Lit(<<"A","v","l">>), Plus(S), Lit(<<"C","r">>), Opt(Lit(<<".">>)), Plus(S), Lit(<<"L","i","m","i","t">>),
                            OptIs, CodeAmount>>)),
                  ReI(Cat(<<Spaced(<<<<"A","v","a","i","l","a","b","l","e">>, <<"C","r","e","d","i","t">>, <<"L","i","m","i","t",":">>>>), CodeAmount>>)) >>,
               2, message),
           BankParser_extract_available_limit(message))

\* the three rules of the leaf, None when none of them applies
ENBD_own_transaction_type(message) ==
    LET low == lower(message)
    IN  IF ContainsAny(low, <<<<"c","r","e","d","i","t","e","d">>, <<"d","e","p","o","s","i","t","e","d">>, <<"r","e","f","u","n","d">>, <<"c","a","s","h","b","a","c","k">>, <<"r","e","c","e","i","v","e","d">>>>)
        THEN Some(INCOME)
        ELSE IF Contains(low, <<"p","u","r","c","h","a","s","e"," ","o","f">>) /\ Contains(low, <<"c","r","e","d","i","t"," ","c","a","r","d">>) THEN Some(CREDIT)
        ELSE IF ContainsAny(low, <<<<"d","e","b","i","t","e","d">>, <<"w","i","t","h","d","r","a","w","n">>, <<"t","r","a","n","s","f","e","r">>>>) THEN Some(EXPENSE)
        ELSE None

ENBD_extract_transaction_type(message) ==
    OrElse(ENBD_own_transaction_type(message), UAE_extract_transaction_type(message))

----------------------------------------------------------------------------
(* BaseIranianBankParser, and its leaf MelliBankParser *)

\* \d{1,3}(?:,\d{3})*|\d+
Grouped3 ==
    Alt(<<Cat(<<Rep(D, 1, 3), Star(Cat(<<Lit(<<",">>), Rep(D, 3, 3)>>))>>), Plus(D)>>)

\* (?:ریال|تومان)
RialToman == Words(<<<<"u0631","u06cc","u0627","u0644">>, <<"u062a","u0648","u0645","u0627","u0646">>>>)

\* the patterns carry no flag; \d and \s are taken on ASCII digits and spaces
Iranian_amount_patterns ==
    << Re(Cat(<<Lit(<<"u0645","u0628","u0644","u063a">>), Star(S), Grp(1, Grouped3), Star(S), RialToman>>)),
       Re(Cat(<<Grp(1, Grouped3), Star(S), RialToman>>)) >>

\* return amount if amount >= 1000 else None
AtLeast1000(amount) == IF amount.c >= 1000 * Pow10(amount.e) THEN Some(amount) ELSE None

(* The loop returns at the first pattern that matches and whose group is a  *)
(* number, whatever the number: an amount below 1000 ends the search.       *)
RECURSIVE Iranian_first_amount(_, _)

Iranian_amount_of(pats, message, amount) ==
    IF amount # None THEN AtLeast1000(amount[1])
    ELSE Iranian_first_amount(Tail(pats), message)

Iranian_first_amount(pats, message) ==
    IF pats = <<>> THEN None
    ELSE Iranian_amount_of(pats, message, DecimalOf(Search(Head(pats), message), 1, message))

Iranian_extract_amount(message) == Iranian_first_amount(Iranian_amount_patterns, message)

Iranian_extract_transaction_type(message) ==
    LET lower_message == lower(message)
    IN  IF is_investment_transaction(lower_message) THEN Some(INVESTMENT)
        ELSE IF ContainsAny(lower_message, <<<<"u0628","u0631","u062f","u0627","u0634","u062a">>, <<"u067e","u0631","u062f","u0627","u062e","u062a">>, <<"u062e","u0631","u06cc","u062f">>, <<"u0627","u0646","u062a","u0642","u0627","u0644">>, <<"u0645","u0635","u0631","u0641">>>>)
        THEN Some(EXPENSE)
        ELSE IF \/ Contains(lower_message, <<"u0648","u0627","u0631","u06cc","u0632">>)
                \/ (Contains(lower_message, <<"c","r","e","d","i","t","e","d">>) /\ ~Contains(lower_message, <<"b","l","o","c","k">>))
        THEN Some(INCOME)
        ELSE None

\* [-\s]?
DashSp == Opt(Cls(Spaces \cup {"-"}))

Iranian_extract_merchant(message, sender) ==
    Prefixed(<<"C","a","r","d"," ">>,
             GroupOf(Search(Re(Grp(1, Cat(<<Rep(D, 4, 4), DashSp, Rep(D, 4, 4), DashSp,
                                            Rep(D, 4, 4), DashSp, Rep(D, 4, 4)>>))), message),
                     message, 1))

Iranian_extract_reference(message) == None

Iranian_extract_account_last4(message) ==
    GroupOf(Search(Re(Cat(<<Rep(D, 4, 4), DashSp, Grp(1, Rep(D, 4, 4))>>)), message), message, 1)

Iranian_extract_balance(message) ==
    FirstDecimal(<<Re(Cat(<<Lit(<<"u0645","u0627","u0646","u062f","u0647">>), Star(S), Opt(Lit(<<":">>)), Star(S),
                            Grp(1, Cat(<<Rep(D, 1, 3), Star(Cat(<<Lit(<<",">>), Rep(D, 3, 3)>>))>>))>>))>>,
                 1, message)

Iranian_detect_is_card(message) ==
    ContainsAny(lower(message),
                <<<<"u06a9","u0627","u0631","u062a">>, <<"c","a","r","d">>, <<"d","e","b","i","t"," ","c","a","r","d">>, <<"c","r","e","d","i","t"," ","c","a","r","d">>, <<"u06a9","u0627","u0631","u062a"," ","u0628","u062f","u0647","u06cc">>, <<"u06a9","u0627","u0631","u062a"," ","u0627","u0639","u062a","u0628","u0627","u0631","u06cc">>>>)

Iranian_is_transaction_message(message) ==
    LET lower_message == lower(message)
    IN  IF ContainsAny(lower_message, <<<<"o","t","p">>, <<"u0631","u0645","u0632"," ","u06cc","u06a9","u0628","u0627","u0631"," ","u0645","u0635","u0631","u0641">>, <<"u06a9","u062f"," ","u062a","u0627","u06cc","u06cc","u062f">>>>) THEN FALSE
        ELSE IF ContainsAny(lower_message, <<<<"u062a","u0628","u0644","u06cc","u063a">>, <<"u067e","u06cc","u0634","u0646","u0647","u0627","u062f">>, <<"u062a","u062e","u0641","u06cc","u0641">>, <<"c","a","s","h","b","a","c","k"," ","o","f","f","e","r">>>>)
        THEN FALSE
        ELSE IF Contains(lower_message, <<"u062f","u0631","u062e","u0648","u0627","u0633","u062a">>) /\ Contains(lower_message, <<"u067e","u0631","u062f","u0627","u062e","u062a">>) THEN FALSE
        ELSE ContainsAny(lower_message,
                         <<<<"u0645","u0628","u0644","u063a">>, <<"u0631","u06cc","u0627","u0644">>, <<"u062a","u0648","u0645","u0627","u0646">>, <<"I","R","R">>, <<"T","O","M","A","N">>, <<"u0628","u0631","u062f","u0627","u0634","u062a">>, <<"u0648","u0627","u0631","u06cc","u0632">>,
                           <<"u067e","u0631","u062f","u0627","u062e","u062a">>, <<"u062e","u0631","u06cc","u062f">>, <<"u0627","u0646","u062a","u0642","u0627","u0644">>, <<"d","e","b","i","t">>, <<"c","r","e","d","i","t">>, <<"s","p","e","n","t">>,
                           <<"r","e","c","e","i","v","e","d">>, <<"t","r","a","n","s","f","e","r","r","e","d">>, <<"p","a","i","d">>>>)

Melli_can_handle(sender) ==
    upper(sender) \in {<<"+","9","8","7","0","0","7","1","7">>, <<"M","E","L","L","I">>, <<"M","E","L","L","I","B","A","N","K">>, <<"M","E","L","L","I"," ","B","A","N","K">>, <<"B","A","N","K"," ","M","E","L","L","I">>, <<"B","A","N","K","M","E","L","L","I">>}

----------------------------------------------------------------------------
(* BaseThailandBankParser, and its leaf BangkokBankParser *)

\* [0-9,]+(?:\.[0-9]{1,2})?
Num12 == Cat(<<Plus(Cls(Digits \cup {","})), Opt(Cat(<<Lit(<<".">>), Rep(D, 1, 2)>>))>>)

\* (?:THB|บาท)
ThbBaht == Words(<<<<"T","H","B">>, <<"u0e1a","u0e32","u0e17">>>>)

\* (?:Bal|คงเหลือ)
BalThai == Words(<<<<"B","a","l">>, <<"u0e04","u0e07","u0e40","u0e2b","u0e25","u0e37","u0e2d">>>>)

Thai_extract_amount(message) ==
    FirstDecimal(<< ReI(Cat(<<Grp(1, Num12), Star(S), ThbBaht>>)),
                    ReI(Cat(<<Words(<<<<"T","H","B">>, <<"u0e3f">>>>), Star(S), Grp(1, Num12)>>)),
                    ReI(Cat(<<Grp(1, Num12), Star(S), Lit(<<"U","S","D">>)>>)) >>,
                 1, message)

Thai_extract_transaction_type(message) ==
    LET low == lower(message)
    IN  IF is_investment_transaction(low) THEN Some(INVESTMENT)
        ELSE IF ContainsAny(low, <<<<"c","r","e","d","i","t"," ","c","a","r","d"," ","s","p","e","n","d","i","n","g">>, <<"u0e22","u0e2d","u0e14","u0e43","u0e0a","u0e49","u0e08","u0e48","u0e32","u0e22","u0e15","u0e48","u0e32","u0e07","u0e1b","u0e23","u0e30","u0e40","u0e17","u0e28">>, <<"u0e22","u0e2d","u0e14","u0e43","u0e0a","u0e49","u0e08","u0e48","u0e32","u0e22">>>>)
        THEN Some(CREDIT)
        ELSE IF ContainsAny(low, <<<<"u0e40","u0e07","u0e34","u0e19","u0e2d","u0e2d","u0e01">>, <<"u0e16","u0e2d","u0e19","u0e40","u0e07","u0e34","u0e19">>, <<"u0e16","u0e2d","u0e19","u0e40","u0e07","u0e34","u0e19","u0e2a","u0e14">>, <<"u0e42","u0e2d","u0e19","u0e40","u0e07","u0e34","u0e19","u0e2d","u0e2d","u0e01">>,
                                   <<"u0e42","u0e2d","u0e19","u0e40","u0e07","u0e34","u0e19","u0e1c","u0e48","u0e32","u0e19">>, <<"u0e43","u0e0a","u0e49","u0e08","u0e48","u0e32","u0e22","u0e1a","u0e31","u0e15","u0e23">>, <<"u0e43","u0e0a","u0e49","u0e08","u0e48","u0e32","u0e22">>, <<"w","i","t","h","d","r","a","w","a","l">>,
                                   <<"p","a","y","m","e","n","t">>, <<"y","o","u"," ","s","p","e","n","t">>, <<"t","r","a","n","s","f","e","r"," ","o","u","t">>, <<"c","a","r","d"," ","p","a","y","m","e","n","t">>,
                                   <<"c","a","r","d"," ","t","r","a","n","s","a","c","t","i","o","n">>, <<"a","t","m"," ","w","i","t","h","d","r","a","w","a","l">>>>)
        THEN Some(EXPENSE)
        ELSE IF ContainsAny(low, <<<<"u0e40","u0e07","u0e34","u0e19","u0e40","u0e02","u0e49","u0e32">>, <<"u0e40","u0e07","u0e34","u0e19","u0e1d","u0e32","u0e01">>, <<"u0e23","u0e31","u0e1a","u0e40","u0e07","u0e34","u0e19">>, <<"u0e42","u0e2d","u0e19","u0e40","u0e07","u0e34","u0e19","u0e40","u0e02","u0e49","u0e32">>,
                                   <<"u0e23","u0e31","u0e1a","u0e40","u0e07","u0e34","u0e19","u0e1e","u0e23","u0e49","u0e2d","u0e21","u0e40","u0e1e","u0e22","u0e4c">>, <<"u0e23","u0e31","u0e1a","u0e40","u0e07","u0e34","u0e19","u0e42","u0e2d","u0e19">>, <<"u0e40","u0e07","u0e34","u0e19","u0e1d","u0e32","u0e01","u0e40","u0e02","u0e49","u0e32">>, <<"d","e","p","o","s","i","t">>,
                                   <<"r","e","c","e","i","v","e">>, <<"t","r","a","n","s","f","e","r"," ","i","n">>, <<"t","r","a","n","s","f","e","r"," ","r","e","c","e","i","v","e","d">>>>)
        THEN Some(INCOME)
        ELSE None

Thai_extract_balance(message) ==
    FirstDecimal(<< ReI(Cat(<<BalThai, Plus(S), Grp(1, Num12), Star(S), ThbBaht>>)),
                    ReI(Cat(<<BalThai, Plus(S), Grp(1, Num12)>>)) >>,
                 1, message)

Thai_extract_account_last4(message) ==
    GroupOf(Search(ReI(Cat(<<Words(<<<<"A","/","C">>, <<"u0e1a","u0e0a">>>>), Star(S), Lit(<<"x">>), Grp(1, Rep(D, 4, 4))>>)),
                   message),
            message, 1)

\* the names tested are groups of [A-Za-z0-9\s&._-]: isalpha() and isdigit() on ASCII
Thai_is_valid_merchant_name(name) ==
    /\ Len(name) >= 2
    /\ \E k \in 1..Len(name) : name[k] \in Uppers \cup Lowers
    /\ upper(name) \notin {<<"U","S","I","N","G">>, <<"V","I","A">>, <<"T","H","R","O","U","G","H">>, <<"B","Y">>, <<"W","I","T","H">>, <<"F","O","R">>, <<"T","O">>, <<"F","R","O","M">>,
                           <<"A","T">>, <<"T","H","E">>, <<"u0e1c","u0e48","u0e32","u0e19">>, <<"u0e42","u0e14","u0e22">>, <<"u0e08","u0e32","u0e01">>, <<"u0e17","u0e35","u0e48">>, <<"u0e44","u0e1b","u0e22","u0e31","u0e07">>, <<"u0e16","u0e36","u0e07">>}
    /\ ~(\A k \in 1..Len(name) : name[k] \in Digits)
    /\ ~Contains(name, <<"@">>)

\* [A-Za-z0-9\s&._-]
MerchantChar == Cls(Uppers \cup Lowers \cup Digits \cup Spaces \cup {"&", ".", "_", "-"})

\* (?:at|ร้าน)\s+
AtShop == Cat(<<Words(<<<<"a","t">>, <<"u0e23","u0e49","u0e32","u0e19">>>>), Plus(S)>>)

Thai_merchant_patterns ==
    << ReI(Cat(<<AtShop, Grp(1, LazyRep(MerchantChar, 1, -1)),
                 Cat(<<Plus(S), Alt(<<Lit(<<"A","/","C">>), Lit(<<"u0e1a","u0e0a">>), Lit(<<"B","a","l">>), Lit(<<"u0e04","u0e07","u0e40","u0e2b","u0e25","u0e37","u0e2d">>),
                                      Lit(<<"A","v","a","i","l","a","b","l","e">>), Lit(<<"o","n">>), Eol>>)>>)>>)),
       ReI(Cat(<<AtShop, Grp(1, Plus(MerchantChar)), Eol>>)) >>

\* mer = self.clean_merchant_name(m.group(1).strip()), kept when it is a valid name
Thai_merchant_of(m, message) ==
    IF m # Fail /\ Thai_is_valid_merchant_name(Strip(Strip(Group(message, m, 1))))
    THEN Some(Strip(Strip(Group(message, m, 1))))
    ELSE None

RECURSIVE Thai_first_merchant(_, _)
Thai_first_merchant(pats, message) ==
    IF pats = <<>> THEN None
    ELSE OrElse(Thai_merchant_of(Search(Head(pats), message), message),
                Thai_first_merchant(Tail(pats), message))

Thai_extract_merchant(message, sender) == Thai_first_merchant(Thai_merchant_patterns, message)

Thai_extract_available_limit(message) ==
    FirstDecimal(<<ReI(Cat(<<Words(<<<<"A","v","a","i","l","a","b","l","e"," ","l","i","m","i","t">>, <<"u0e27","u0e07","u0e40","u0e07","u0e34","u0e19","u0e04","u0e07","u0e40","u0e2b","u0e25","u0e37","u0e2d">>>>), Plus(S), Grp(1, Num12),
                             Star(S), ThbBaht>>))>>,
                 1, message)

Thai_is_transaction_message(message) ==
    LET low == lower(message)
    IN  IF ContainsAny(low, <<<<"o","t","p">>, <<"u0e23","u0e2b","u0e31","u0e2a">>, <<"u0e22","u0e37","u0e19","u0e22","u0e31","u0e19">>>>) THEN FALSE
        ELSE IF ContainsAny(low, <<<<"u0e2a","u0e21","u0e31","u0e04","u0e23">>, <<"u0e42","u0e1b","u0e23","u0e42","u0e21","u0e0a","u0e31","u0e48","u0e19">>, <<"p","r","o","m","o","t","i","o","n">>, <<"c","a","s","h","b","a","c","k"," ","o","f","f","e","r">>>>)
        THEN FALSE
        ELSE ContainsAny(low, <<<<"u0e40","u0e07","u0e34","u0e19","u0e40","u0e02","u0e49","u0e32">>, <<"u0e40","u0e07","u0e34","u0e19","u0e2d","u0e2d","u0e01">>, <<"u0e16","u0e2d","u0e19","u0e40","u0e07","u0e34","u0e19">>, <<"u0e42","u0e2d","u0e19","u0e40","u0e07","u0e34","u0e19">>, <<"u0e43","u0e0a","u0e49","u0e08","u0e48","u0e32","u0e22">>,
                                <<"u0e40","u0e07","u0e34","u0e19","u0e1d","u0e32","u0e01">>, <<"u0e23","u0e31","u0e1a","u0e40","u0e07","u0e34","u0e19">>, <<"u0e04","u0e07","u0e40","u0e2b","u0e25","u0e37","u0e2d">>, <<"u0e1a","u0e32","u0e17">>, <<"u0e22","u0e2d","u0e14","u0e43","u0e0a","u0e49","u0e08","u0e48","u0e32","u0e22">>,
                                <<"w","i","t","h","d","r","a","w","a","l">>, <<"d","e","p","o","s","i","t">>, <<"t","r","a","n","s","f","e","r">>, <<"p","a","y","m","e","n","t">>, <<"s","p","e","n","t">>,
                                <<"r","e","c","e","i","v","e">>, <<"b","a","l">>, <<"t","h","b">>, <<"c","a","r","d"," ","t","r","a","n","s","a","c","t","i","o","n">>, <<"c","a","r","d"," ","p","a","y","m","e","n","t">>,
                                <<"c","r","e","d","i","t"," ","c","a","r","d"," ","s","p","e","n","d","i","n","g">>, <<"a","v","a","i","l","a","b","l","e"," ","l","i","m","i","t">>>>)

Bangkok_can_handle(sender) ==
    \/ upper(sender) = <<"B","B","L">>
    \/ Contains(upper(sender), <<"B","A","N","G","K","O","K"," ","B","A","N","K">>)
    \/ Contains(upper(sender), <<"B","A","N","G","K","O","K","B","A","N","K">>)

----------------------------------------------------------------------------
(* The sender tests of the two M-Pesa parsers *)

MPesaTanzania_can_handle(sender) ==
    \/ Contains(upper(sender), <<"M","P","E","S","A">>) \/ Contains(upper(sender), <<"M","-","P","E","S","A">>)
    \/ Contains(upper(sender), <<"V","O","D","A","C","O","M">>)

MPESA_can_handle(sender) ==
    Contains(upper(sender), <<"M","P","E","S","A">>) \/ Contains(upper(sender), <<"M","-","P","E","S","A">>)

----------------------------------------------------------------------------
(* FABParser, First Abu Dhabi Bank *)

FAB_can_handle(sender) ==
    \/ ContainsAny(upper(sender), <<<<"F","A","B">>, <<"F","A","B","B","A","N","K">>, <<"A","D","F","A","B">>>>)
    \/ MatchAtStart(Re(Cat(<<Bol, Rep(Cls(Uppers), 2, 2), Lit(<<"-","F","A","B","-">>), Cls(Uppers), Eol>>)),
                    upper(sender))

\* non_txn, each keyword a pattern for re.search on the lowered message
FAB_non_txn ==
    << Re(Lit(<<"d","e","c","l","i","n","e","d"," ","d","u","e"," ","t","o"," ","i","n","s","u","f","f","i","c","i","e","n","t"," ","b","a","l","a","n","c","e">>)), Re(Lit(<<"t","r","a","n","s","a","c","t","i","o","n"," ","h","a","s"," ","b","e","e","n"," ","d","e","c","l","i","n","e","d">>)),
       Re(Lit(<<"a","d","d","r","e","s","s"," ","u","p","d","a","t","e"," ","r","e","q","u","e","s","t">>)), Re(Lit(<<"s","t","a","t","e","m","e","n","t"," ","r","e","q","u","e","s","t">>)),
       Re(Lit(<<"s","t","a","m","p","e","d"," ","s","t","a","t","e","m","e","n","t">>)), Re(Lit(<<"c","a","n","n","o","t"," ","p","r","o","c","e","s","s"," ","y","o","u","r">>)), Re(Lit(<<"a","m","a","z","i","n","g"," ","r","a","t","e">>)),
       Re(Lit(<<"r","e","q","u","e","s","t"," ","h","a","s"," ","b","e","e","n"," ","l","o","g","g","e","d">>)), Re(Lit(<<"r","e","f","e","r","e","n","c","e"," ","n","u","m","b","e","r">>)),
       Re(Lit(<<"b","e","n","e","f","i","c","i","a","r","y"," ","c","r","e","a","t","i","o","n","/","m","o","d","i","f","i","c","a","t","i","o","n"," ","r","e","q","u","e","s","t">>)),
       Re(Lit(<<"f","u","n","d","s"," ","t","r","a","n","s","f","e","r"," ","r","e","q","u","e","s","t"," ","i","s"," ","u","n","d","e","r"," ","p","r","o","c","e","s","s">>)), Re(Lit(<<"h","a","s"," ","b","e","e","n"," ","r","e","s","o","l","v","e","d">>)),
       Re(Lit(<<"f","u","n","d","s"," ","t","r","a","n","s","f","e","r"," ","r","e","q","u","e","s","t"," ","h","a","s"," ","f","a","i","l","e","d">>)),
       Re(Lit(<<"c","a","r","d"," ","h","a","s"," ","b","e","e","n"," ","s","u","c","c","e","s","s","f","u","l","l","y"," ","a","c","t","i","v","a","t","e","d">>)), Re(Lit(<<"t","e","m","p","o","r","a","r","i","l","y"," ","b","l","o","c","k","e","d">>)),
       Re(Lit(<<"n","e","v","e","r"," ","s","h","a","r","e"," ","c","r","e","d","i","t","/","d","e","b","i","t"," ","c","a","r","d">>)),
       Re(Cat(<<Lit(<<"d","e","b","i","t"," ","c","a","r","d">>), Star(Dot), Lit(<<"r","e","p","l","a","c","e","m","e","n","t"," ","r","e","q","u","e","s","t">>)>>)),
       Re(Lit(<<"c","a","r","d"," ","w","i","l","l"," ","b","e"," ","r","e","a","d","y"," ","f","o","r"," ","d","i","s","p","a","t","c","h">>)),
       Re(Lit(<<"r","e","p","l","a","c","e","m","e","n","t"," ","r","e","q","u","e","s","t"," ","h","a","s"," ","b","e","e","n"," ","r","e","g","i","s","t","e","r","e","d">>)), Re(Lit(<<"o","t","p">>)),
       Re(Lit(<<"a","c","t","i","v","a","t","i","o","n">>)), Re(Lit(<<"t","h","a","n","k"," ","y","o","u"," ","f","o","r"," ","a","c","t","i","v","a","t","i","n","g">>)),
       Re(Lit(<<"d","o"," ","n","o","t"," ","d","i","s","c","l","o","s","e"," ","y","o","u","r"," ","o","t","p">>)),
       Re(Cat(<<Lit(<<"a","t","y","o","u","r","s","e","r","v","i","c","e","@","b","a","n","k","f","a","b">>), Dot, Lit(<<"c","o","m">>)>>)),
       Re(Lit(<<"h","a","s"," ","b","e","e","n"," ","b","l","o","c","k","e","d"," ","o","n">>)) >>

FAB_tx_kw ==
    <<<<"c","r","e","d","i","t"," ","c","a","r","d"," ","p","u","r","c","h","a","s","e">>, <<"d","e","b","i","t"," ","c","a","r","d"," ","p","u","r","c","h","a","s","e">>, <<"i","n","w","a","r","d"," ","r","e","m","i","t","t","a","n","c","e">>, <<"o","u","t","w","a","r","d"," ","r","e","m","i","t","t","a","n","c","e">>,
     <<"a","t","m"," ","c","a","s","h"," ","w","i","t","h","d","r","a","w","a","l">>, <<"p","a","y","m","e","n","t"," ","i","n","s","t","r","u","c","t","i","o","n","s">>, <<"h","a","s"," ","b","e","e","n"," ","p","r","o","c","e","s","s","e","d">>,
     <<"h","a","s"," ","b","e","e","n"," ","c","r","e","d","i","t","e","d"," ","t","o"," ","y","o","u","r"," ","f","a","b"," ","a","c","c","o","u","n","t">>, <<"c","a","s","h"," ","d","e","p","o","s","i","t">>, <<"c","h","e","q","u","e"," ","c","r","e","d","i","t","e","d">>,
     <<"c","h","e","q","u","e"," ","r","e","t","u","r","n","e","d">>>>

FAB_is_transaction_message(message) ==
    LET low == lower(message)
    IN  IF \E k \in 1..Len(FAB_non_txn) : Search(FAB_non_txn[k], low) # Fail THEN FALSE
        ELSE IF /\ ContainsAny(low, <<<<"b","i","t",".","l","y">>, <<"c","o","n","d","i","t","i","o","n","s"," ","a","p","p","l","y">>, <<"i","n","s","t","a","l","m","e","n","t","s"," ","a","t"," ","0","%"," ","i","n","t","e","r","e","s","t">>>>)
                /\ ~ContainsAny(low, <<<<"p","u","r","c","h","a","s","e">>, <<"p","a","y","m","e","n","t"," ","i","n","s","t","r","u","c","t","i","o","n","s">>, <<"r","e","m","i","t","t","a","n","c","e">>>>)
        THEN FALSE
        ELSE IF Contains(low, <<"f","u","n","d","s"," ","t","r","a","n","s","f","e","r"," ","r","e","q","u","e","s","t"," ","o","f">>) /\ Contains(low, <<"h","a","s"," ","b","e","e","n"," ","p","r","o","c","e","s","s","e","d">>)
        THEN TRUE
        ELSE IF ContainsAny(low, FAB_tx_kw) THEN TRUE
        ELSE IF /\ ContainsAny(low, <<<<"c","r","e","d","i","t">>, <<"d","e","b","i","t">>, <<"r","e","m","i","t","t","a","n","c","e">>, <<"a","v","a","i","l","a","b","l","e"," ","b","a","l","a","n","c","e">>>>)
                /\ Search(Re(Cat(<<Iso, Plus(S), Num>>)), low) # Fail
        THEN TRUE
        ELSE BankParser_is_transaction_message(message)

\* [0-9*,]+(?:\.\d{2})?
StarNum == Cat(<<Plus(Cls(Digits \cup {"*", ","})), Opt(Cat(<<Lit(<<".">>), Rep(D, 2, 2)>>))>>)

FAB_amount_patterns ==
    << ReI(Cat(<<Lit(<<"f","u","n","d","s"," ","t","r","a","n","s","f","e","r"," ","r","e","q","u","e","s","t"," ","o","f">>), Plus(S), Grp(1, Iso), Plus(S), Grp(2, Num)>>)),
       ReI(Cat(<<Lit(<<"f","o","r">>), Plus(S), Grp(1, Iso), Plus(S), Grp(2, Num)>>)),
       ReI(Cat(<<Grp(1, Iso), Plus(S), Lit(<<"*">>), Grp(2, Num)>>)),
       ReI(Cat(<<Grp(1, Iso), Plus(S), Grp(2, StarNum)>>)),
       ReI(Cat(<<Lit(<<"A","m","o","u","n","t">>), Star(S), Grp(1, Iso), Plus(S), Lit(<<"*">>), Grp(2, Num)>>)),
       ReI(Cat(<<Lit(<<"A","m","o","u","n","t">>), Star(S), Grp(1, Iso), Plus(S), Grp(2, StarNum)>>)),
       ReI(Cat(<<Lit(<<"p","a","y","m","e","n","t">>), LazyRep(Dot, 0, -1), Grp(1, Iso), Plus(S), Lit(<<"*">>),
                 Grp(2, Num)>>)),
       ReI(Cat(<<Lit(<<"p","a","y","m","e","n","t">>), LazyRep(Dot, 0, -1), Grp(1, Iso), Plus(S), Grp(2, StarNum)>>)) >>

\* \d+(?:\.\d{2})?
Plain == Cat(<<Plus(D), Opt(Cat(<<Lit(<<".">>), Rep(D, 2, 2)>>))>>)

\* s[s.find('.'):]
FromDot(s) == SubSeq(s, Find(s, <<".">>), Len(s))

\* the "*" branch of extract_amount: the string handed to Decimal, None where it returns super()
FAB_unmasked(amount_str) ==
    IF ~Contains(amount_str, <<"*">>) THEN Some(amount_str)
    ELSE IF MatchAtStart(Re(Cat(<<Lit(<<"*">>), Plain>>)), amount_str)
    THEN Some(Tail(amount_str))
    ELSE IF MatchAtStart(Re(Cat(<<Plus(Cls({"*"})), Lit(<<".">>), Rep(D, 2, 2)>>)), amount_str)
    THEN Some(<<"0">> \o FromDot(amount_str))
    ELSE GroupOf(Search(Re(Grp(1, Plain)), amount_str), amount_str, 1)

\* the loop of extract_amount: the amount it returns and currency_code of the match it is
\* taken from (None where the amount is the one of super())
RECURSIVE FAB_scan(_, _)

FAB_taken(pats, message, m, text) ==
    IF text = None THEN [code |-> None, amount |-> UAE_extract_amount(message)]
    ELSE IF Decimal(text[1]) # None
         THEN [code |-> Some(upper(Group(message, m, 1))), amount |-> Decimal(text[1])]
         ELSE FAB_scan(Tail(pats), message)

FAB_match(pats, message, m) ==
    IF m = Fail THEN FAB_scan(Tail(pats), message)
    ELSE FAB_taken(pats, message, m, FAB_unmasked(RemoveCommas(Group(message, m, 2))))

FAB_scan(pats, message) ==
    IF pats = <<>> THEN [code |-> None, amount |-> UAE_extract_amount(message)]
    ELSE FAB_match(pats, message, Search(Head(pats), message))

FAB_extract_amount(message) == FAB_scan(FAB_amount_patterns, message).amount

\* str.split("\n")
RECURSIVE SplitLines(_)
SplitLines(s) ==
    IF Find(s, <<"\n">>) = 0 THEN <<s>>
    ELSE <<SubSeq(s, 1, Find(s, <<"\n">>) - 1)>> \o SplitLines(SubSeq(s, Find(s, <<"\n">>) + 1, Len(s)))

\* s.strip().replace("*", "").strip()
Unstarred(s) == Strip(SelectSeq(Strip(s), LAMBDA c : c # "*"))

\* s[-n:]
LastN(s, n) == SubSeq(s, IF Len(s) > n THEN Len(s) - n + 1 ELSE 1, Len(s))

\* the truth value of an optional string
NonEmpty(x) == x # None /\ x[1] # <<>>

\* [X\d]{4,}
XDigits == Plus(Cls(Digits \cup {"X"}))

XDigits4 == Rep(Cls(Digits \cup {"X"}), 4, -1)

FAB_f_pats ==
    << ReI(Cat(<<Lit(<<"f","r","o","m">>), Plus(S), Lit(<<"a","c","c","o","u","n","t">>), Plus(S), Grp(1, XDigits4)>>)),
       ReI(Cat(<<Lit(<<"f","r","o","m">>), Plus(S), Lit(<<"a","c","c","o","u","n","t","/","c","a","r","d">>), Plus(S), Grp(1, XDigits4)>>)),
       ReI(Cat(<<Lit(<<"f","r","o","m"," ","y","o","u","r"," ","a","c","c","o","u","n","t","/","c","a","r","d">>), Plus(S), Grp(1, XDigits4)>>)),
       ReI(Cat(<<Lit(<<"f","r","o","m">>), Plus(S), Grp(1, XDigits4), Plus(S), Lit(<<"t","o">>), Plus(S),
                 Lit(<<"a","c","c","o","u","n","t">>)>>)) >>

FAB_t_pats ==
    << ReI(Cat(<<Lit(<<"t","o">>), Plus(S), Lit(<<"a","c","c","o","u","n","t">>), Plus(S), Grp(1, XDigits4)>>)),
       ReI(Cat(<<Lit(<<"t","o">>), Plus(S), Lit(<<"I","B","A","N","/","A","c","c","o","u","n","t","/","C","a","r","d">>), Plus(S), Grp(1, XDigits4)>>)),
       ReI(Cat(<<Lit(<<"t","o">>), Plus(S), Lit(<<"I","B","A","N","/","A","c","c","o","u","n","t","/","C","a","r","d">>), Plus(S), Grp(1, XDigits4), Plus(S),
                 Lit(<<"h","a","s"," ","b","e","e","n"," ","p","r","o","c","e","s","s","e","d"," ","s","u","c","c","e","s","s","f","u","l","l","y"," ","f","r","o","m">>)>>)),
       ReI(Cat(<<Lit(<<"t","o">>), Plus(S), Grp(1, XDigits4), Plus(S), Lit(<<"f","r","o","m">>), Plus(S),
                 Lit(<<"a","c","c","o","u","n","t">>)>>)) >>

\* extract(pats): m.group(1).replace("X", "")[-4:] of the first pattern that matches
FAB_extract(pats, message) ==
    IF FirstGroup(pats, message) = None THEN None
    ELSE Some(LastN(SelectSeq(FirstGroup(pats, message)[1], LAMBDA c : c # "X"), 4))

extract_transfer_accounts(message) ==
    <<FAB_extract(FAB_f_pats, message), FAB_extract(FAB_t_pats, message)>>

format_transfer_merchant(accounts) ==
    IF NonEmpty(accounts[1]) /\ NonEmpty(accounts[2])
    THEN <<"T","r","a","n","s","f","e","r",":"," ">> \o LastN(accounts[1][1], 3) \o <<" ","u2192"," ">> \o LastN(accounts[2][1], 3)
    ELSE IF NonEmpty(accounts[1]) THEN <<"T","r","a","n","s","f","e","r"," ","f","r","o","m"," ">> \o LastN(accounts[1][1], 3)
    ELSE IF NonEmpty(accounts[2]) THEN <<"T","r","a","n","s","f","e","r"," ","t","o"," ">> \o LastN(accounts[2][1], 3)
    ELSE <<"T","r","a","n","s","f","e","r">>

\* \d{2}/\d{2}/\d{2}
ShortDate == Cat(<<Rep(D, 2, 2), Lit(<<"/">>), Rep(D, 2, 2), Lit(<<"/">>), Rep(D, 2, 2)>>)

\* \d{2}/\d{2}/\d{2}\s+\d{2}:\d{2}
DateTime == Cat(<<ShortDate, Plus(S), Rep(D, 2, 2), Lit(<<":">>), Rep(D, 2, 2)>>)

FAB_purchase_line ==
    ReI(Cat(<<Alt(<<Lit(<<"C","r","e","d","i","t">>), Lit(<<"D","e","b","i","t">>)>>), Plus(S), Lit(<<"C","a","r","d">>), Plus(S),
              Lit(<<"P","u","r","c","h","a","s","e">>), Plus(S), Lit(<<"C","a","r","d">>), Plus(S), Lit(<<"N","o">>), Plus(S), XDigits,
              Plus(S), Iso, Plus(S), Plus(Cls(Digits \cup {",", "."})), Plus(S),
              Grp(1, LazyRep(NotCls(Digits), 1, -1)), Plus(S), ShortDate>>))

\* the index of the first line the test holds of, 0 when there is none
FirstLine(lines, Test(_)) == MinOr({i \in 1..Len(lines) : Test(lines[i])}, 0)

\* the merchant of a card purchase: the line after the amount's, the second line after the
\* card's, or a site name; None where the code goes on to the other rules
FAB_site_merchant(message, m_site) ==
    IF m_site = Fail THEN None
    ELSE Some(clean_merchant_name(Unstarred(Group(message, m_site, 1))))

FAB_card_line(message, lines, m_card, c_idx) ==
    IF /\ m_card # Fail /\ c_idx # 0 /\ c_idx + 2 <= Len(lines)
       /\ Strip(lines[c_idx + 2]) # <<>>
       /\ ~Contains(Strip(lines[c_idx + 2]), <<"A","v","a","i","l","a","b","l","e"," ","B","a","l","a","n","c","e">>)
       /\ ~MatchAtStart(Re(DateTime), Strip(lines[c_idx + 2]))
    THEN Some(clean_merchant_name(Strip(SelectSeq(Strip(lines[c_idx + 2]), LAMBDA c : c # "*"))))
    ELSE FAB_site_merchant(message,
             Search(ReI(Grp(1, Cat(<<Plus(Cls(Uppers)), Lit(<<".">>),
                                     Alt(<<Lit(<<"C","O","M">>), Lit(<<"N","E","T">>), Lit(<<"O","R","G">>), Lit(<<"I","N">>)>>),
                                     Star(Dot)>>))), message))

FAB_card_of(message, lines, m_card) ==
    FAB_card_line(message, lines, m_card,
        IF m_card = Fail THEN 0
        ELSE FirstLine(lines, LAMBDA line : Contains(line, Group0(message, m_card))))

FAB_amount_line(message, lines, cur_idx) ==
    IF /\ cur_idx # 0 /\ cur_idx + 1 <= Len(lines)
       /\ Unstarred(lines[cur_idx + 1]) # <<>>
       /\ ~Contains(Unstarred(lines[cur_idx + 1]), <<"/">>)
    THEN Some(clean_merchant_name(Unstarred(lines[cur_idx + 1])))
    ELSE FAB_card_of(message, lines,
             Search(ReI(Cat(<<Lit(<<"C","a","r","d">>), Plus(S), Plus(Cls({"X", "*"})), Grp(1, Rep(D, 4, 4))>>)),
                    message))

FAB_purchase_merchant(message, m1) ==
    IF m1 # Fail /\ Unstarred(Group(message, m1, 1)) # <<>>
    THEN Some(clean_merchant_name(Unstarred(Group(message, m1, 1))))
    ELSE FAB_amount_line(message, SplitLines(message),
             FirstLine(SplitLines(message),
                       LAMBDA line : Search(ReI(Cat(<<Iso, Plus(S), Num>>)), line) # Fail))

\* the recipient of "payment instructions": its last four digits, or digits and X
FAB_recipient(recip) ==
    IF recip = None THEN None
    ELSE IF Contains(recip[1], <<"*">>) /\ OnlyDigits(recip[1]) # <<>>
    THEN Some(<<"T","r","a","n","s","f","e","r"," ","t","o"," ">> \o LastN(OnlyDigits(recip[1]), 4))
    ELSE IF SelectSeq(recip[1], LAMBDA c : c \in Digits \cup {"X"}) # <<>>
    THEN Some(<<"T","r","a","n","s","f","e","r"," ","t","o"," ">> \o LastN(SelectSeq(recip[1], LAMBDA c : c \in Digits \cup {"X"}), 4))
    ELSE None

FAB_transfer_merchant(message) ==
    IF Contains(lower(message), <<"f","u","n","d","s"," ","t","r","a","n","s","f","e","r"," ","r","e","q","u","e","s","t">>)
    THEN Some(format_transfer_merchant(extract_transfer_accounts(message)))
    ELSE IF Contains(lower(message), <<"p","a","y","m","e","n","t"," ","i","n","s","t","r","u","c","t","i","o","n","s">>)
    THEN FAB_recipient(GroupOf(Search(ReI(Cat(<<Lit(<<"t","o">>), Plus(S), Grp(1, Plus(NotCls(Spaces)))>>)),
                                      message), message, 1))
    ELSE None

\* tx_merchants, in the order of the dictionary
FAB_tx_merchants ==
    << <<<<"a","t","m"," ","c","a","s","h"," ","w","i","t","h","d","r","a","w","a","l">>, <<"A","T","M"," ","W","i","t","h","d","r","a","w","a","l">>>>, <<<<"i","n","w","a","r","d"," ","r","e","m","i","t","t","a","n","c","e">>, <<"I","n","w","a","r","d"," ","R","e","m","i","t","t","a","n","c","e">>>>,
       <<<<"o","u","t","w","a","r","d"," ","r","e","m","i","t","t","a","n","c","e">>, <<"O","u","t","w","a","r","d"," ","R","e","m","i","t","t","a","n","c","e">>>>, <<<<"c","a","s","h"," ","d","e","p","o","s","i","t">>, <<"C","a","s","h"," ","D","e","p","o","s","i","t">>>>,
       <<<<"c","h","e","q","u","e"," ","c","r","e","d","i","t","e","d">>, <<"C","h","e","q","u","e"," ","C","r","e","d","i","t","e","d">>>>, <<<<"c","h","e","q","u","e"," ","r","e","t","u","r","n","e","d">>, <<"C","h","e","q","u","e"," ","R","e","t","u","r","n","e","d">>>>,
       <<<<"c","a","s","h"," ","w","i","t","h","d","r","a","w","a","l">>, <<"C","a","s","h"," ","W","i","t","h","d","r","a","w","a","l">>>>, <<<<"u","n","s","u","c","c","e","s","s","f","u","l"," ","t","r","a","n","s","a","c","t","i","o","n">>, <<"R","e","f","u","n","d">>>> >>

FAB_named_merchant(message, sender) ==
    IF /\ Contains(lower(message), <<"h","a","s"," ","b","e","e","n"," ","c","r","e","d","i","t","e","d"," ","t","o"," ","y","o","u","r"," ","f","a","b"," ","a","c","c","o","u","n","t">>)
       /\ ~Contains(lower(message), <<"u","n","s","u","c","c","e","s","s","f","u","l"," ","t","r","a","n","s","a","c","t","i","o","n">>)
    THEN Some(<<"A","c","c","o","u","n","t"," ","C","r","e","d","i","t","e","d">>)
    ELSE IF \E k \in 1..Len(FAB_tx_merchants) : Contains(lower(message), FAB_tx_merchants[k][1])
    THEN Some(FAB_tx_merchants[MinOr({k \in 1..Len(FAB_tx_merchants) :
                                        Contains(lower(message), FAB_tx_merchants[k][1])}, 0)][2])
    ELSE BankParser_extract_merchant(message, sender)

FAB_extract_merchant(message, sender) ==
    OrElse(IF contains_card_purchase(message)
           THEN FAB_purchase_merchant(message, Search(FAB_purchase_line, message))
           ELSE None,
           OrElse(FAB_transfer_merchant(message), FAB_named_merchant(message, sender)))

FAB_account_patterns ==
    << ReI(Cat(<<Lit(<<"C","a","r","d">>), Plus(S), Lit(<<"N","o">>), Plus(S),
                 Grp(1, Rep(Cls(Digits \cup {"X"}), 4, 4))>>)),
       ReI(Cat(<<Lit(<<"A","c","c","o","u","n","t">>), Plus(S), Grp(1, Rep(Cls(Digits \cup {"X"}), 4, 4)),
                 Rep(Cls({"*"}), 0, 2)>>)),
       ReI(Cat(<<Lit(<<"A","c","c","o","u","n","t">>), Plus(S), Plus(Cls({"X", "*"})), Grp(1, Rep(D, 4, 4))>>)) >>

\* the first pattern whose group 1 is more than "X"s
RECURSIVE FAB_first_account(_, _)
FAB_first_account(pats, message) ==
    IF pats = <<>> THEN None
    ELSE IF NonEmpty(GroupOf(Search(Head(pats), message), message, 1))
            /\ SelectSeq(Group(message, Search(Head(pats), message), 1), LAMBDA c : c # "X") # <<>>
    THEN Some(SelectSeq(Group(message, Search(Head(pats), message), 1), LAMBDA c : c # "X"))
    ELSE FAB_first_account(Tail(pats), message)

extract_standard_account_last4(message) ==
    OrElse(FAB_first_account(FAB_account_patterns, message), BankParser_extract_account_last4(message))

FAB_extract_account_last4(message) ==
    IF /\ Contains(lower(message), <<"f","u","n","d","s"," ","t","r","a","n","s","f","e","r"," ","r","e","q","u","e","s","t">>)
       /\ NonEmpty(extract_transfer_accounts(message)[1])
    THEN extract_transfer_accounts(message)[1]
    ELSE extract_standard_account_last4(message)

\* the "*" branch of extract_balance: the string handed to Decimal, None where it returns None
FAB_balance_str(bal_str) ==
    IF ~Contains(bal_str, <<"*">>) THEN Some(bal_str)
    ELSE IF MatchAtStart(Re(Cat(<<Plus(Cls({"*"})), Plain>>)), bal_str)
    THEN Some(SelectSeq(bal_str, LAMBDA c : c # "*"))
    ELSE IF MatchAtStart(Re(Cat(<<Plus(Cls({"*"})), Lit(<<".">>), Rep(D, 2, 2)>>)), bal_str)
    THEN Some(<<"0">> \o FromDot(bal_str))
    ELSE None

FAB_balance_of(message, m) ==
    IF m = Fail THEN BankParser_extract_balance(message)
    ELSE IF FAB_balance_str(RemoveCommas(Group(message, m, 2))) = None THEN None
    ELSE OrElse(Decimal(FAB_balance_str(RemoveCommas(Group(message, m, 2)))[1]),
                BankParser_extract_balance(message))

FAB_extract_balance(message) ==
    FAB_balance_of(message,
        Search(ReI(Cat(<<Lit(<<"a","v","a","i","l","a","b","l","e">>), Plus(S), Lit(<<"b","a","l","a","n","c","e">>), Plus(S),
                         Opt(Cat(<<Lit(<<"i","s">>), Plus(S)>>)), Grp(1, Iso), Star(S), Star(Cls({"*"})),
                         Grp(2, StarNum)>>)), message))

FAB_extract_reference(message) ==
    OrElse(GroupOf(Search(Re(Grp(1, DateTime)), message), message, 1),
           OrElse(GroupOf(Search(ReI(Cat(<<Lit(<<"V","a","l","u","e">>), Plus(S), Lit(<<"D","a","t","e">>), Plus(S),
                                           Grp(1, Cat(<<Rep(D, 2, 2), Lit(<<"/">>), Rep(D, 2, 2),
                                                        Lit(<<"/">>), Rep(D, 2, 2), Rep(D, 2, 2)>>))>>)),
                                 message), message, 1),
                  BankParser_extract_reference(message)))
----------------------------------------------------------------------------
(* IndianBankParser *)

\* \d+(?:,\d{3})*(?:\.\d{2})?
GroupedNum ==
    Cat(<<Plus(D), Star(Cat(<<Lit(<<",">>), Rep(D, 3, 3)>>)), Opt(Cat(<<Lit(<<".">>), Rep(D, 2, 2)>>))>>)

IndianBank_sender_patterns ==
    << Re(Cat(<<Bol, Rep(Cls(Uppers), 2, 2), Lit(<<"-","I","N","D","B","N","K","-","S">>), Eol>>)),
       Re(Cat(<<Bol, Rep(Cls(Uppers), 2, 2), Lit(<<"-","I","N","D","B","N","K","-">>), Cls({"T", "P", "G"}), Eol>>)),
       Re(Cat(<<Bol, Rep(Cls(Uppers), 2, 2), Lit(<<"-","I","N","D","B","N","K">>), Eol>>)),
       Re(Lit(<<"I","N","D","B","N","K">>)), Re(Lit(<<"I","N","D","I","A","N">>)) >>

IndianBank_can_handle(sender) ==
    \/ ContainsAny(upper(sender), <<<<"I","N","D","I","A","N"," ","B","A","N","K">>, <<"I","N","D","I","A","N","B","A","N","K">>, <<"I","N","D","I","A","N","B","K">>>>)
    \/ \E k \in 1..Len(IndianBank_sender_patterns) :
           MatchAtStart(IndianBank_sender_patterns[k], upper(sender))
    \/ upper(sender) \in {<<"^","[","A","-","Z","]","{","2","}","-","I","N","D","B","N","K","-","S","$">>, <<"^","[","A","-","Z","]","{","2","}","-","I","N","D","B","N","K","-","[","T","P","G","]","$">>, <<"^","[","A","-","Z","]","{","2","}","-","I","N","D","B","N","K","$">>,
                          <<"I","N","D","B","N","K">>, <<"I","N","D","I","A","N">>}

IndianBank_extract_amount(message) ==
    OrElse(FirstDecimal(
               << ReI(Cat(<<Lit(<<"d","e","b","i","t","e","d">>), Plus(S), RsDot, Grp(1, GroupedNum)>>)),
                  ReI(Cat(<<Lit(<<"c","r","e","d","i","t","e","d">>), Plus(S), RsDot, Grp(1, GroupedNum)>>)),
                  ReI(Cat(<<RsDot, Grp(1, GroupedNum), Plus(S), Lit(<<"c","r","e","d","i","t","e","d">>), Plus(S),
                            Lit(<<"t","o">>)>>)),
                  ReI(Cat(<<Lit(<<"w","i","t","h","d","r","a","w","n">>), Plus(S), RsDot, Grp(1, GroupedNum)>>)),
                  ReI(Cat(<<Lit(<<"U","P","I">>), Plus(S), Lit(<<"p","a","y","m","e","n","t">>), Plus(S), Lit(<<"o","f">>), Plus(S),
                            RsDot, Grp(1, GroupedNum)>>)) >>,
               1, message),
           BankParser_extract_amount(message))

\* ([^.\n]+?)(?:\.\s*UPI:|UPI:|$)
UpiTail ==
    Cat(<<Grp(1, LazyRep(NotCls({".", "\n"}), 1, -1)),
          Alt(<<Cat(<<Lit(<<".">>), Star(S), Lit(<<"U","P","I",":">>)>>), Lit(<<"U","P","I",":">>), Eol>>)>>)

\* [\w.-]+@[\w]+ up to the "@"
IndianBank_vpa(message, m3) ==
    IF m3 = Fail THEN None ELSE Some(clean_merchant_name(Group(message, m3, 1)))

IndianBank_atm(loc) == IF loc = None THEN None ELSE Some(<<"A","T","M"," ","-"," ">> \o loc[1])

IndianBank_extract_merchant(message, sender) ==
    OrElse(MerchantOf(Search(ReI(Cat(<<Lit(<<"t","o">>), Plus(S), UpiTail>>)), message), message),
    OrElse(MerchantOf(Search(ReI(Cat(<<Lit(<<"f","r","o","m">>), Plus(S), UpiTail>>)), message), message),
    OrElse(IndianBank_vpa(message,
               Search(ReI(Cat(<<Lit(<<"V","P","A">>), Plus(S),
                                Grp(1, Plus(Cls(WordChars \cup {".", "-"}))), Lit(<<"@">>),
                                Plus(Cls(WordChars))>>)), message)),
    OrElse(IndianBank_atm(MerchantOf(
               Search(ReI(Cat(<<Lit(<<"A","T","M">>), Plus(S), Opt(Cat(<<Lit(<<"w","i","t","h","d","r","a","w","a","l">>), Plus(S)>>)),
                                Lit(<<"a","t">>), Plus(S), Grp(1, LazyRep(NotCls({".", "\n"}), 1, -1)),
                                Alt(<<Cat(<<Plus(S), Lit(<<"o","n">>)>>), Eol>>)>>)), message), message)),
           BankParser_extract_merchant(message, sender)))))

IndianBank_extract_account_last4(message) ==
    OrElse(FirstGroup(
               << ReI(Cat(<<Lit(<<"A","/","c">>), Plus(S), Lit(<<"*">>), Grp(1, Rep(D, 4, 4))>>)),
                  ReI(Cat(<<Lit(<<"A","c","c","o","u","n","t">>), Plus(S), Star(Cls({"X"})), Grp(1, Rep(D, 4, 4))>>)),
                  ReI(Cat(<<Lit(<<"A","/","c">>), Plus(S), Lit(<<"e","n","d","i","n","g">>), Plus(S), Grp(1, Rep(D, 4, 4))>>)) >>,
               message),
           BankParser_extract_account_last4(message))

IndianBank_extract_reference(message) ==
    OrElse(FirstGroup(
               << ReI(Cat(<<Lit(<<"U","P","I",":">>), Grp(1, Plus(D))>>)),
                  ReI(Cat(<<Lit(<<"U","P","I">>), Plus(S), Lit(<<"R","e","f">>), Plus(S), Lit(<<"n","o">>), Plus(S),
                            Grp(1, Plus(D))>>)),
                  ReI(Cat(<<Lit(<<"R","e","f">>), Plus(S), Lit(<<"N","o">>), Opt(Lit(<<".">>)), Star(S),
                            Grp(1, Plus(Cls(WordChars)))>>)),
                  ReI(Cat(<<Lit(<<"T","r","a","n","s","a","c","t","i","o","n">>), Plus(S), Lit(<<"I","D">>), Opt(Lit(<<":">>)), Star(S),
                            Grp(1, Plus(Cls(WordChars)))>>)) >>,
               message),
           BankParser_extract_reference(message))

IndianBank_extract_balance(message) ==
    OrElse(FirstDecimal(
               << ReI(Cat(<<Lit(<<"B","a","l">>), Plus(S), RsDot, Grp(1, GroupedNum)>>)),
                  ReI(Cat(<<Lit(<<"A","v","a","i","l","a","b","l","e">>), Plus(S), Lit(<<"B","a","l","a","n","c","e">>), Opt(Lit(<<":">>)), Plus(S),
                            RsDot, Grp(1, GroupedNum)>>)) >>,
               1, message),
           BankParser_extract_balance(message))

IndianBank_extract_transaction_type(message) ==
    LET low == lower(message)
    IN  IF Contains(low, <<"d","e","b","i","t","e","d">>) \/ Contains(low, <<"w","i","t","h","d","r","a","w","n">>) THEN Some(EXPENSE)
        ELSE IF Contains(low, <<"u","p","i"," ","p","a","y","m","e","n","t">>) /\ ~Contains(low, <<"r","e","c","e","i","v","e","d">>) THEN Some(EXPENSE)
        ELSE IF ContainsAny(low, <<<<"c","r","e","d","i","t","e","d">>, <<"d","e","p","o","s","i","t","e","d">>, <<"r","e","c","e","i","v","e","d">>>>) THEN Some(INCOME)
        ELSE BankParser_extract_transaction_type(message)

----------------------------------------------------------------------------
(* Method resolution: the step a parser class runs *)

HDFC == "HDFC"

SBI == "SBI"

IndianBank == "IndianBank"

Utkarsh == "Utkarsh"

Canara == "Canara"

Bandhan == "Bandhan"

FAB == "FAB"

ENBD == "EmiratesNBD"

MPesaTanzania == "MPesaTanzania"

MPESA == "MPESA"

Melli == "Melli"

Bangkok == "Bangkok"

\* BankParserFactory._parsers, the modelled parsers in their registration order
Factory_parsers ==
    <<HDFC, SBI, IndianBank, Utkarsh, Canara, Bandhan, FAB, ENBD, MPesaTanzania, MPESA, Melli,
      Bangkok>>

can_handle(p, sender) ==
    CASE p = HDFC -> HDFC_can_handle(sender)
      [] p = SBI -> SBI_can_handle(sender)
      [] p = IndianBank -> IndianBank_can_handle(sender)
      [] p = Utkarsh -> Utkarsh_can_handle(sender)
      [] p = Canara -> Canara_can_handle(sender)
      [] p = Bandhan -> Bandhan_can_handle(sender)
      [] p = FAB -> FAB_can_handle(sender)
      [] p = ENBD -> ENBD_can_handle(sender)
      [] p = MPesaTanzania -> MPesaTanzania_can_handle(sender)
      [] p = MPESA -> MPESA_can_handle(sender)
      [] p = Melli -> Melli_can_handle(sender)
      [] p = Bangkok -> Bangkok_can_handle(sender)

(* The steps below are those of the six Indian parsers, of the two Gulf     *)
(* parsers, of Melli and of Bangkok Bank; the M-Pesa parsers take part in   *)
(* the lookup only.                                                         *)
get_bank_name(p) ==
    CASE p = HDFC -> <<"H","D","F","C"," ","B","a","n","k">>
      [] p = SBI -> <<"S","t","a","t","e"," ","B","a","n","k"," ","o","f"," ","I","n","d","i","a">>
      [] p = IndianBank -> <<"I","n","d","i","a","n"," ","B","a","n","k">>
      [] p = Utkarsh -> <<"U","t","k","a","r","s","h"," ","B","a","n","k">>
      [] p = Canara -> <<"C","a","n","a","r","a"," ","B","a","n","k">>
      [] p = Bandhan -> <<"B","a","n","d","h","a","n"," ","B","a","n","k">>
      [] p = FAB -> <<"F","i","r","s","t"," ","A","b","u"," ","D","h","a","b","i"," ","B","a","n","k">>
      [] p = ENBD -> <<"E","m","i","r","a","t","e","s"," ","N","B","D">>
      [] p = Melli -> <<"M","e","l","l","i"," ","B","a","n","k">>
      [] p = Bangkok -> <<"B","a","n","g","k","o","k"," ","B","a","n","k">>

get_currency(p) ==
    CASE p \in {FAB, ENBD} -> <<"A","E","D">>
      [] p = Melli -> <<"I","R","R">>
      [] p = Bangkok -> <<"T","H","B">>
      [] OTHER -> <<"I","N","R">>

extract_currency(p, message) ==
    CASE p \in {FAB, ENBD} -> UAE_extract_currency(message)
      [] OTHER -> BankParser_extract_currency(message)

detect_is_card(p, message) ==
    CASE p = Melli -> Iranian_detect_is_card(message)
      [] OTHER -> BankParser_detect_is_card(message)

is_transaction_message(p, message) ==
    CASE p = HDFC -> HDFC_is_transaction_message(message)
      [] p = SBI -> SBI_is_transaction_message(message)
      [] p = Canara -> Canara_is_transaction_message(message)
      [] p = FAB -> FAB_is_transaction_message(message)
      [] p = ENBD -> ENBD_is_transaction_message(message)
      [] p = Melli -> Iranian_is_transaction_message(message)
      [] p = Bangkok -> Thai_is_transaction_message(message)
      [] OTHER -> BankParser_is_transaction_message(message)

extract_amount(p, message) ==
    CASE p = SBI -> SBI_extract_amount(message)
      [] p = IndianBank -> IndianBank_extract_amount(message)
      [] p = Canara -> Canara_extract_amount(message)
      [] p = FAB -> FAB_extract_amount(message)
      [] p = ENBD -> UAE_extract_amount(message)
      [] p = Melli -> Iranian_extract_amount(message)
      [] p = Bangkok -> Thai_extract_amount(message)
      [] OTHER -> BankParser_extract_amount(message)

extract_transaction_type(p, message) ==
    CASE p = HDFC -> HDFC_extract_transaction_type(message)
      [] p = SBI -> SBI_extract_transaction_type(message)
      [] p = IndianBank -> IndianBank_extract_transaction_type(message)
      [] p = Utkarsh -> Utkarsh_extract_transaction_type(message)
      [] p = FAB -> UAE_extract_transaction_type(message)
      [] p = ENBD -> ENBD_extract_transaction_type(message)
      [] p = Melli -> Iranian_extract_transaction_type(message)
      [] p = Bangkok -> Thai_extract_transaction_type(message)
      [] OTHER -> BankParser_extract_transaction_type(message)

extract_available_limit(p, message) ==
    CASE p = SBI -> SBI_extract_available_limit(message)
      [] p = ENBD -> ENBD_extract_available_limit(message)
      [] p = Bangkok -> Thai_extract_available_limit(message)
      [] OTHER -> BankParser_extract_available_limit(message)

extract_merchant(p, message, sender) ==
    CASE p = HDFC -> HDFC_extract_merchant(message, sender)
      [] p = SBI -> SBI_extract_merchant(message, sender)
      [] p = IndianBank -> IndianBank_extract_merchant(message, sender)
      [] p = Utkarsh -> Utkarsh_extract_merchant(message, sender)
      [] p = Canara -> Canara_extract_merchant(message, sender)
      [] p = Bandhan -> Bandhan_extract_merchant(message, sender)
      [] p = FAB -> FAB_extract_merchant(message, sender)
      [] p = ENBD -> ENBD_extract_merchant(message, sender)
      [] p = Melli -> Iranian_extract_merchant(message, sender)
      [] p = Bangkok -> Thai_extract_merchant(message, sender)

extract_reference(p, message) ==
    CASE p = HDFC -> HDFC_extract_reference(message)
      [] p = SBI -> SBI_extract_reference(message)
      [] p = IndianBank -> IndianBank_extract_reference(message)
      [] p = Canara -> Canara_extract_reference(message)
      [] p = FAB -> FAB_extract_reference(message)
      [] p = Melli -> Iranian_extract_reference(message)
      [] OTHER -> BankParser_extract_reference(message)

extract_account_last4(p, message) ==
    CASE p = HDFC -> HDFC_extract_account_last4(message)
      [] p = SBI -> SBI_extract_account_last4(message)
      [] p = IndianBank -> IndianBank_extract_account_last4(message)
      [] p = Utkarsh -> Utkarsh_extract_account_last4(message)
      [] p = Canara -> Canara_extract_account_last4(message)
      [] p = FAB -> FAB_extract_account_last4(message)
      [] p = ENBD -> ENBD_extract_account_last4(message)
      [] p = Melli -> Iranian_extract_account_last4(message)
      [] p = Bangkok -> Thai_extract_account_last4(message)
      [] OTHER -> BankParser_extract_account_last4(message)

extract_balance(p, message) ==
    CASE p = HDFC -> HDFC_extract_balance(message)
      [] p = SBI -> SBI_extract_balance(message)
      [] p = IndianBank -> IndianBank_extract_balance(message)
      [] p = Canara -> Canara_extract_balance(message)
      [] p = FAB -> FAB_extract_balance(message)
      [] p = ENBD -> ENBD_extract_balance(message)
      [] p = Melli -> Iranian_extract_balance(message)
      [] p = Bangkok -> Thai_extract_balance(message)
      [] OTHER -> BankParser_extract_balance(message)

(* The two mandatory steps as the overriding class and its parent have     *)
(* them: what the override's own rules find, and what super() returns.     *)
(* Emirates NBD inherits extract_amount from UAEBankParser, the override.  *)
own_extract_amount(p, message) ==
    CASE p = ENBD -> UAE_first_amount(UAE_amount_patterns, message)
      [] p = Melli -> Iranian_extract_amount(message)
      [] p = Bangkok -> Thai_extract_amount(message)

super_extract_amount(p, message) == BankParser_extract_amount(message)

own_extract_transaction_type(p, message) ==
    CASE p = HDFC -> HDFC_extract_transaction_type(message)
      [] p = ENBD -> ENBD_own_transaction_type(message)
      [] p = Melli -> Iranian_extract_transaction_type(message)
      [] p = Bangkok -> Thai_extract_transaction_type(message)

super_extract_transaction_type(p, message) ==
    CASE p = ENBD -> UAE_extract_transaction_type(message)
      [] OTHER -> BankParser_extract_transaction_type(message)

----------------------------------------------------------------------------
(* Dispatch *)

\* BankParserRegistry.get_parser: for parser in self.parsers: if parser.can_handle(sender): return parser
RECURSIVE Registry_get_parser(_, _)
Registry_get_parser(parsers, sender) ==
    IF parsers = <<>> THEN None
    ELSE IF can_handle(Head(parsers), sender) THEN Some(Head(parsers))
    ELSE Registry_get_parser(Tail(parsers), sender)

\* BankParserFactory.get_parser: the same loop over cls._parsers, here from index k on
RECURSIVE Factory_scan(_, _)
Factory_scan(k, sender) ==
    IF k > Len(Factory_parsers) THEN None
    ELSE IF can_handle(Factory_parsers[k], sender) THEN Some(Factory_parsers[k])
    ELSE Factory_scan(k + 1, sender)

\* a variant whose loop keeps the last parser that accepts the sender
RECURSIVE get_parser_last_match(_, _)
get_parser_last_match(k, sender) ==
    IF k = 0 THEN None
    ELSE IF can_handle(Factory_parsers[k], sender) THEN Some(Factory_parsers[k])
    ELSE get_parser_last_match(k - 1, sender)

Factory_get_parser_last(sender) == get_parser_last_match(Len(Factory_parsers), sender)

Factory_get_parser(sender) == Factory_scan(1, sender)

is_known_bank_sender(sender) ==
    \E k \in 1..Len(Factory_parsers) : can_handle(Factory_parsers[k], sender)

----------------------------------------------------------------------------
(* ParsedTransaction *)

\* the constructor; an attribute the constructor does not create is None
\* until something assigns it (Some(value))
ParsedTransaction(amount, type, sms_body, sender, timestamp, bank_name, merchant, reference, account_last4, balance, credit_limit, is_from_card, currency) ==
    [ amount |-> amount, type |-> type, merchant |-> merchant, reference |-> reference,
      account_last4 |-> account_last4, balance |-> balance, credit_limit |-> credit_limit,
      sms_body |-> sms_body, sender |-> sender, timestamp |-> timestamp, bank_name |-> bank_name,
      transaction_hash |-> None, is_from_card |-> is_from_card, currency |-> currency,
      from_account |-> None, to_account |-> None,
      accountLast4 |-> None, creditLimit |-> None, isFromCard |-> None ]

\* amount.quantize(Decimal("0.00"), rounding=ROUND_HALF_UP)
QuantizeAbs(d) ==
    IF d.e <= 2 THEN [c |-> d.c * Pow10(2 - d.e), e |-> 2]
    ELSE LET p == Pow10(d.e - 2)
             q == d.c \div p
             r == d.c % p
         IN  [c |-> IF 2 * r >= p THEN q + 1 ELSE q, e |-> 2]

quantize(d) ==
    IF d.c < 0 THEN Negated(Some(QuantizeAbs([c |-> 0 - d.c, e |-> d.e])))[1] ELSE QuantizeAbs(d)

\* str(n) of a natural number
RECURSIVE NatStr(_)
NatStr(n) == IF n < 10 THEN <<DigitSeq[n + 1]>> ELSE NatStr(n \div 10) \o <<DigitSeq[(n % 10) + 1]>>

\* str(d) of a decimal with two places
UnsignedStr(c) ==
    NatStr(c \div 100) \o <<".">> \o <<DigitSeq[((c \div 10) % 10) + 1], DigitSeq[(c % 10) + 1]>>

DecimalStr(d) == IF d.c < 0 THEN <<"-">> \o UnsignedStr(0 - d.c) ELSE UnsignedStr(d.c)

(* hashlib.md5(x).hexdigest(): the digest is a function of x and of nothing *)
(* else; it is kept as the value it was computed from.                      *)
Md5(x) == [md5 |-> x]

\* a variant that hashes the timestamp and the amount as given
transaction_id_of_all(t) ==
    Md5([text |-> t.sender \o <<"|">> \o NatStr(t.amount.c) \o <<"|">> \o NatStr(t.timestamp),
         hash |-> [first16 |-> Md5(t.sms_body)]])

generate_transaction_id(t) ==
    LET normalized_amount == quantize(t.amount)
        sms_body_hash == [first16 |-> Md5(t.sms_body)]
    IN  Md5([text |-> t.sender \o <<"|">> \o DecimalStr(normalized_amount) \o <<"|">>,
             hash |-> sms_body_hash])

----------------------------------------------------------------------------
(* The state *)

VARIABLES
    req,      \* the message at hand: [body, sender, timestamp]
    pc,       \* where the call stands
    sel,      \* what get_parser returned: None or Some(parser)
    part,     \* the mandatory values extracted so far: [amount, type]
    out,      \* the outcome of parse: [tag, txn]
    ident,    \* what generate_transaction_id returned, once called
    known,    \* what is_known_bank_sender returned, once called
    first,    \* the completed earlier call on the same message, once repeated
    ret,      \* a direct call of one step: [fn, body, value]
    shared,   \* what every call reads: the parser list, the parsers' attributes, the patterns
    calls     \* the calls that run side by side, each with its own frame

vars == <<req, pc, sel, part, out, ident, known, first, ret, shared, calls>>

----------------------------------------------------------------------------
(* The objects built once, when the modules are loaded *)

\* BankParserFactory._parsers, vars(parser) of each parser (no parser class has __init__),
\* and the compiled patterns of CompiledPatterns
Registered ==
    [ parsers |-> Factory_parsers,
      attributes |-> [p \in {Factory_parsers[k] : k \in 1..Len(Factory_parsers)} |-> {}],
      patterns |-> [Amount |-> Amount_ALL_PATTERNS, Balance |-> Balance_ALL_PATTERNS] ]

NoCalls == <<>>

----------------------------------------------------------------------------
(* Bounds and input pools *)

\* phrases of a body given to parse
MaxPhrases == 2

\* phrases of a body given to one step directly
MaxStepPhrases == 2

\* phrases of a body given to extract_account_last4 directly
MaxAccountPhrases == 3

MaxTimestamp == 2

\* " ".join(phrases)
RECURSIVE Join(_)
Join(phrases) ==
    IF phrases = <<>> THEN <<>>
    ELSE IF Len(phrases) = 1 THEN phrases[1]
    ELSE phrases[1] \o <<" ">> \o Join(Tail(phrases))

\* every body made of at most n phrases of the pool
BodiesOf(pool, n) ==
    {Join([k \in 1..Len(ix) |-> pool[ix[k]]]) :
        ix \in UNION {[1..len -> 1..Len(pool)] : len \in 0..n}}

ParsePhrases ==
    << <<"R","s"," ","5","0","0"," ","d","e","b","i","t","e","d">>, <<"R","s"," ","9"," ","t","r","a","n","s","f","e","r","r","e","d">>, <<"d","e","b","i","t","e","d">>, <<"p","r","e","-","a","p","p","r","o","v","e","d">>, <<"a","p","p","l","y"," ","n","o","w">>,
       <<"c","a","s","h","b","a","c","k"," ","o","f","f","e","r">>, <<"A","n"," ","e","-","m","a","n","d","a","t","e"," ","o","f"," ","R","s"," ","4","9","9"," ","t","o","w","a","r","d","s"," ","N","e","t","f","l","i","x"," ","w","i","l","l"," ","b","e"," ","d","e","b","i","t","e","d"," ","o","n"," ","0","5","-","J","a","n">>,
       <<"R","s"," ","7","0",".","5","0"," ","s","p","e","n","t"," ","o","n"," ","c","r","e","d","i","t"," ","c","a","r","d"," ","e","n","d","i","n","g"," ","1","2","3","4">>, <<"a","v","a","i","l","a","b","l","e"," ","l","i","m","i","t"," ","i","s"," ","R","s"," ","9",",","0","0","0",".","0","0">>,
       <<"t","o"," ","A","M","A","Z","O","N"," ","o","n"," ","5">> >>

Senders ==
    { <<"A","D","-","H","D","F","C","S","B","I">>, <<"S","B","I","B","N","K">>, <<"S","B","I","C","R","D">>, <<"U","T","K","S","P","R">>, <<"C","A","N","B","N","K">>, <<"B","A","N","D","H","A","N">>, <<"N","O","B","A","N","K">> }

Timestamps == 1..MaxTimestamp

Requests ==
    [body : BodiesOf(ParsePhrases, MaxPhrases), sender : Senders, timestamp : Timestamps]

KindPhrases ==
    << <<"d","e","b","i","t","e","d">>, <<"w","i","t","h","d","r","a","w","n">>, <<"s","p","e","n","t">>, <<"c","h","a","r","g","e","d">>, <<"p","a","i","d">>, <<"p","u","r","c","h","a","s","e">>, <<"d","e","d","u","c","t","e","d">>,
       <<"c","r","e","d","i","t","e","d">>, <<"d","e","p","o","s","i","t","e","d">>, <<"r","e","c","e","i","v","e","d">>, <<"r","e","f","u","n","d">>, <<"c","a","s","h","b","a","c","k">>, <<"e","a","r","n"," ","c","a","s","h","b","a","c","k">>,
       <<"m","u","t","u","a","l"," ","f","u","n","d">>, <<"v","i","a"," ","N","A","C","H">>, <<"t","r","a","n","s","f","e","r","r","e","d">>, <<"R","s"," ","5">> >>

GuardPhrases ==
    << <<"d","e","b","i","t","e","d">>, <<"c","r","e","d","i","t","e","d">>, <<"w","i","t","h","d","r","a","w","n">>, <<"d","e","p","o","s","i","t","e","d">>, <<"s","p","e","n","t">>, <<"r","e","c","e","i","v","e","d">>,
       <<"t","r","a","n","s","f","e","r","r","e","d">>, <<"p","a","i","d">>, <<"s","e","n","t">>, <<"R","s"," ","5">>,
       <<"O","T","P">>, <<"v","e","r","i","f","i","c","a","t","i","o","n"," ","c","o","d","e">>, <<"o","f","f","e","r">>, <<"d","i","s","c","o","u","n","t">>, <<"w","i","n"," ","b","i","g">>,
       <<"h","a","s"," ","r","e","q","u","e","s","t","e","d">>, <<"p","a","y","m","e","n","t"," ","r","e","q","u","e","s","t">>, <<"y","o","u"," ","h","a","v","e"," ","r","e","c","e","i","v","e","d"," ","p","a","y","m","e","n","t">>,
       <<"i","s"," ","d","u","e">>, <<"i","g","n","o","r","e"," ","i","f"," ","p","a","i","d">>, <<"p","l","s"," ","p","a","y"," ","m","i","n"," ","o","f">>, <<"p","l","s"," ","p","a","y">> >>

AccountPhrases ==
    << <<"A","/","c"," ","X","X","9","0","1","2">>, <<"C","a","r","d"," ","2","0","9","9">>, <<"A","c","c","t"," ","2","0","3","1">>, <<"A","c","c","o","u","n","t"," ","1","2","3","4">>, <<"R","R","N"," ","1","2","3","4","5","6","7","8","9","0","1","2">>,
       <<"R","R","N"," ","9","9","9","9","9","9","9","9">>, <<"R","e","f"," ","8","8","1","2","3","4","5","6","7","8">>, <<"o","n"," ","1","2","/","0","5","/","2","0","9","9">>, <<"d","a","t","e","d"," ","1","-","2","-","2","0","3","1">>, <<"C","a","r","d"," ">>, <<"2","0","3","1">> >>

MaxDecimalPhrases == 2

DecimalPhrases ==
    << <<"R","s"," ",",">>, <<"I","N","R"," ","2","0">>, <<"R","s"," ","5">>, <<"rupee"," ","7",".","5","0">>, <<"B","a","l"," ","R","s"," ",",">>, <<"B","a","l"," ","I","N","R"," ","2","0">>, <<"B","a","l","a","n","c","e",":"," ","9">> >>

\* the direct calls: a step of the default parser and the body it is given
StepCalls ==
    ({"extract_transaction_type"} \X BodiesOf(KindPhrases, MaxStepPhrases))
    \cup ({"is_transaction_message"} \X BodiesOf(GuardPhrases, MaxStepPhrases))
    \cup ({"extract_account_last4"} \X BodiesOf(AccountPhrases, MaxAccountPhrases))
    \cup ({"extract_amount", "extract_balance"} \X BodiesOf(DecimalPhrases, MaxDecimalPhrases))

----------------------------------------------------------------------------
(* The parse pipeline *)

Pending == [tag |-> "pending", txn |-> None]

NoPart == [amount |-> None, type |-> None]

NoCall == [fn |-> "none", body |-> <<>>, value |-> None]

Init ==
    /\ req \in Requests
    /\ pc = "dispatch"
    /\ sel = None
    /\ part = NoPart
    /\ out = Pending
    /\ ident = None
    /\ known = None
    /\ first = None
    /\ ret = NoCall
    /\ shared = Registered
    /\ calls = NoCalls

\* SBIBankParser.parse passes the normalised body on; every other parser the body itself
parse_input(p, sms_body) == IF p = SBI THEN normalize_unicode_text(sms_body) ELSE sms_body

\* parser = BankParserFactory.get_parser(request.address); if not parser: no parse
FactoryGetParser ==
    /\ pc = "dispatch"
    /\ sel' = Factory_get_parser(req.sender)
    /\ pc' = IF sel' = None THEN "done" ELSE "guard"
    /\ out' = IF sel' = None THEN [tag |-> "noparser", txn |-> None] ELSE out
    /\ UNCHANGED <<req, part, ident, known, first, ret, shared, calls>>

\* the same lookup through a BankParserRegistry built over the same list
RegistryGetParser ==
    /\ pc = "dispatch"
    /\ sel' = Registry_get_parser(Factory_parsers, req.sender)
    /\ pc' = IF sel' = None THEN "done" ELSE "guard"
    /\ out' = IF sel' = None THEN [tag |-> "noparser", txn |-> None] ELSE out
    /\ UNCHANGED <<req, part, ident, known, first, ret, shared, calls>>

\* a variant that goes on to the amount whatever the test says
Classify_goes_on ==
    /\ pc = "guard"
    /\ pc' = "amount"
    /\ out' = out
    /\ UNCHANGED <<req, sel, part, ident, known, first, ret, shared, calls>>

\* if not self.is_transaction_message(sms_body): return None
Classify ==
    /\ pc = "guard"
    /\ IF is_transaction_message(sel[1], parse_input(sel[1], req.body))
       THEN pc' = "amount" /\ out' = out
       ELSE pc' = "done" /\ out' = [tag |-> "none", txn |-> None]
    /\ UNCHANGED <<req, sel, part, ident, known, first, ret, shared, calls>>

\* amount = self.extract_amount(sms_body); if amount is None: return None
ExtractAmount ==
    /\ pc = "amount"
    /\ part' = [part EXCEPT !.amount = extract_amount(sel[1], parse_input(sel[1], req.body))]
    /\ IF part'.amount = None
       THEN pc' = "done" /\ out' = [tag |-> "none", txn |-> None]
       ELSE pc' = "kind" /\ out' = out
    /\ UNCHANGED <<req, sel, ident, known, first, ret, shared, calls>>

\* txn_type = self.extract_transaction_type(sms_body); if txn_type is None: return None
ExtractKind ==
    /\ pc = "kind"
    /\ part' = [part EXCEPT !.type = extract_transaction_type(sel[1], parse_input(sel[1], req.body))]
    /\ IF part'.type = None
       THEN pc' = "done" /\ out' = [tag |-> "none", txn |-> None]
       ELSE pc' = "side" /\ out' = out
    /\ UNCHANGED <<req, sel, ident, known, first, ret, shared, calls>>

\* from_acc, to_acc of FABParser.parse: looked for in a transfer only
FAB_accounts(sms_body, t_type) ==
    IF t_type = TRANSFER THEN extract_transfer_accounts(sms_body) ELSE <<None, None>>

\* the constructor call of FABParser.parse
FAB_ParsedTransaction(sms_body, sender, timestamp, amount, t_type, available_limit, merchant) ==
    [ParsedTransaction(
         amount, t_type, sms_body, sender, timestamp, get_bank_name(FAB), merchant,
         FAB_extract_reference(sms_body), FAB_extract_account_last4(sms_body),
         FAB_extract_balance(sms_body), available_limit, contains_card_purchase(sms_body),
         IF NonEmpty(UAE_extract_currency(sms_body)) THEN UAE_extract_currency(sms_body)[1]
         ELSE <<"A","E","D">>)
     EXCEPT !.from_account = FAB_accounts(sms_body, t_type)[1],
            !.to_account = FAB_accounts(sms_body, t_type)[2]]

\* what parse returns once merchant is evaluated: an exception of extract_merchant leaves parse
Returned(p, sms_body, sender, timestamp, amount, txn_type, available_limit, merchant) ==
    IF IsRaise(merchant) THEN [tag |-> "raise", txn |-> None]
    ELSE IF p = FAB
    THEN [tag |-> "txn",
          txn |-> Some(FAB_ParsedTransaction(sms_body, sender, timestamp, amount, txn_type,
                                             available_limit, merchant))]
    ELSE [tag |-> "txn",
          txn |-> Some(ParsedTransaction(
                     amount, txn_type, sms_body, sender, timestamp, get_bank_name(p), merchant,
                     extract_reference(p, sms_body), extract_account_last4(p, sms_body),
                     extract_balance(p, sms_body), available_limit,
                     detect_is_card(p, sms_body), get_currency(p)))]

\* a variant that looks for the limit whatever the kind is
Construct_limit_always ==
    /\ pc = "side"
    /\ out' = Returned(sel[1], parse_input(sel[1], req.body), req.sender, req.timestamp,
                       part.amount[1], part.type[1],
                       extract_available_limit(sel[1], parse_input(sel[1], req.body)),
                       extract_merchant(sel[1], parse_input(sel[1], req.body), req.sender))
    /\ pc' = IF out'.tag = "txn" /\ sel[1] \in {SBI, ENBD} THEN "post" ELSE "done"
    /\ UNCHANGED <<req, sel, part, ident, known, first, ret, shared, calls>>

\* the limit for a card charge, then the constructor call with its arguments
Construct ==
    /\ pc = "side"
    /\ out' = Returned(sel[1], parse_input(sel[1], req.body), req.sender, req.timestamp,
                       part.amount[1], part.type[1],
                       IF part.type[1] = CREDIT
                       THEN extract_available_limit(sel[1], parse_input(sel[1], req.body))
                       ELSE None,
                       extract_merchant(sel[1], parse_input(sel[1], req.body), req.sender))
    /\ pc' = IF out'.tag = "txn" /\ sel[1] \in {SBI, ENBD} THEN "post" ELSE "done"
    /\ UNCHANGED <<req, sel, part, ident, known, first, ret, shared, calls>>

\* bool(x) of an optional string and of an optional decimal, as "x or y" tests it
TruthyStr(x) == x # None /\ x[1] # <<>>

TruthyDec(x) == x # None /\ x[1].c # 0

\* "x or y" on optional strings
OrStr(x, y) == IF TruthyStr(x) THEN x ELSE y

(* The credit card branch of SBIBankParser.parse: kind and merchant are      *)
(* rewritten.  "a or parsed.b" reads parsed.b only when a is falsy, and      *)
(* accountLast4 and creditLimit are not attributes of the transaction:      *)
(* reading them raises AttributeError.                                       *)
SBI_card(parsed, low, card_last4, limit, card_merchant) ==
    IF ~TruthyStr(card_last4) /\ parsed.accountLast4 = None THEN [tag |-> "raise", txn |-> None]
    ELSE IF ~TruthyDec(limit) /\ parsed.creditLimit = None THEN [tag |-> "raise", txn |-> None]
    ELSE [tag |-> "txn",
          txn |-> Some([parsed EXCEPT
                     !.accountLast4 = Some(card_last4),
                     !.type = IF /\ Contains(low, <<"p","a","y","m","e","n","t"," ","o","f">>)
                                 /\ Contains(low, <<"c","r","e","d","i","t","e","d"," ","t","o"," ","y","o","u","r"," ","s","b","i"," ","c","r","e","d","i","t"," ","c","a","r","d">>)
                              THEN INCOME
                              ELSE IF Contains(low, <<"s","p","e","n","t"," ","o","n">>) \/ Contains(low, <<"s","p","e","n","t">>) THEN CREDIT
                              ELSE CREDIT,
                     !.merchant = OrStr(IF Contains(low, <<"v","i","a"," ","b","b","p","s">>) THEN Some(<<"B","B","P","S"," ","P","a","y","m","e","n","t">>)
                                        ELSE OrStr(card_merchant, parsed.merchant),
                                        parsed.merchant),
                     !.creditLimit = Some(limit),
                     !.isFromCard = Some(TRUE)])]

\* SBIBankParser.parse after super().parse returned a transaction
SBIPost ==
    /\ pc = "post"
    /\ sel[1] = SBI
    /\ out' = IF is_credit_card_message(req.sender, parse_input(SBI, req.body))
              THEN SBI_card(out.txn[1], lower(parse_input(SBI, req.body)),
                            extract_credit_card_last4(parse_input(SBI, req.body)),
                            SBI_extract_available_limit(parse_input(SBI, req.body)),
                            extract_credit_card_merchant(parse_input(SBI, req.body)))
              ELSE out
    /\ pc' = "done"
    /\ UNCHANGED <<req, sel, part, ident, known, first, ret, shared, calls>>

\* transaction.currency = extracted_currency, when extract_currency found a code
WithCurrency(transaction, extracted_currency) ==
    IF TruthyStr(extracted_currency)
    THEN [transaction EXCEPT !.currency = extracted_currency[1]]
    ELSE transaction

\* UAEBankParser.parse after super().parse returned a transaction
UAEPost ==
    /\ pc = "post"
    /\ sel[1] = ENBD
    /\ out' = [out EXCEPT !.txn = Some(WithCurrency(out.txn[1], UAE_extract_currency(req.body)))]
    /\ pc' = "done"
    /\ UNCHANGED <<req, sel, part, ident, known, first, ret, shared, calls>>

\* parsed_txn.generate_transaction_id(), as format_parsed_txn calls it
GenerateTransactionId ==
    /\ pc = "done"
    /\ out.tag = "txn"
    /\ ident = None
    /\ ident' = Some(generate_transaction_id(out.txn[1]))
    /\ UNCHANGED <<req, pc, sel, part, out, known, first, ret, shared, calls>>

IsKnownBankSender ==
    /\ pc = "done"
    /\ known = None
    /\ known' = Some(is_known_bank_sender(req.sender))
    /\ UNCHANGED <<req, pc, sel, part, out, ident, first, ret, shared, calls>>

\* the same message is handed in again: the first call is kept for comparison
Replay ==
    /\ pc = "done"
    /\ first = None
    /\ out.tag = "txn" => ident # None
    /\ first' = Some([req |-> req, out |-> out, ident |-> ident])
    /\ pc' = "dispatch"
    /\ sel' = None
    /\ part' = NoPart
    /\ out' = Pending
    /\ ident' = None
    /\ UNCHANGED <<req, known, ret, shared, calls>>

Next ==
    \/ FactoryGetParser
    \/ RegistryGetParser
    \/ Classify
    \/ ExtractAmount
    \/ ExtractKind
    \/ Construct
    \/ SBIPost
    \/ GenerateTransactionId
    \/ IsKnownBankSender
    \/ Replay

Spec == Init /\ [][Next]_vars

----------------------------------------------------------------------------
(* Messages of the locale bases next to those of the default parser *)

MaxLocalePhrases == 2

LocalePhrases ==
    << <<"R","s"," ","5","0","0"," ","d","e","b","i","t","e","d">>, <<"R","s"," ","-","5","0","0"," ","d","e","b","i","t","e","d">>, <<"c","r","e","d","i","t","e","d"," ","t","o"," ","A","/","c"," ","X","X","1","2","3","4">>,
       <<"A","E","D"," ","7","5",".","5","0"," ","d","e","b","i","t","e","d"," ","f","r","o","m"," ","a","c","c","o","u","n","t">>, <<"P","u","r","c","h","a","s","e"," ","o","f"," ","U","S","D"," ","-","2","0"," ","w","i","t","h"," ","C","r","e","d","i","t"," ","C","a","r","d"," ","e","n","d","i","n","g"," ","4","3","2","1">>,
       <<"u0628","u0631","u062f","u0627","u0634","u062a"," ","u0645","u0628","u0644","u063a"," ","2","5",",","0","0","0"," ","u0631","u06cc","u0627","u0644">>, <<"u0648","u0627","u0631","u06cc","u0632"," ","9","0","0"," ","u062a","u0648","u0645","u0627","u0646">>, <<"u06a9","u0627","u0631","u062a"," ","6","0","3","7","-","9","9","1","1">>,
       <<"W","i","t","h","d","r","a","w","a","l"," ","1",",","2","5","0",".","0","0"," ","T","H","B">>, <<"u0e40","u0e07","u0e34","u0e19","u0e40","u0e02","u0e49","u0e32"," ","5","0","0"," ","u0e1a","u0e32","u0e17"," ","A","/","C"," ","x","1","2","3","4">>, <<"c","r","e","d","i","t"," ","c","a","r","d"," ","s","p","e","n","d","i","n","g"," ","T","H","B"," ","-","3","0">>,
       <<"f","r","o","m"," ","A","/","c"," ","X","X","9","0","1","2"," ","R","e","f"," ","N","o",".","1","2","3","4","5","6","7","8","9","0","1","2">> >>

LocaleSenders == { <<"U","T","K","S","P","R">>, <<"A","D","-","H","D","F","C","S","B","I">>, <<"S","B","I","B","N","K">>, <<"E","N","B","D">>, <<"M","E","L","L","I">>, <<"B","B","L">> }

LocaleRequests ==
    [body : BodiesOf(LocalePhrases, MaxLocalePhrases), sender : LocaleSenders, timestamp : {1}]

InitLocales ==
    /\ req \in LocaleRequests
    /\ pc = "dispatch"
    /\ sel = None
    /\ part = NoPart
    /\ out = Pending
    /\ ident = None
    /\ known = None
    /\ first = None
    /\ ret = NoCall
    /\ shared = Registered
    /\ calls = NoCalls

NextLocales ==
    \/ FactoryGetParser
    \/ Classify
    \/ ExtractAmount
    \/ ExtractKind
    \/ Construct
    \/ SBIPost
    \/ UAEPost
    \/ GenerateTransactionId

SpecLocales == InitLocales /\ [][NextLocales]_vars

----------------------------------------------------------------------------
(* Direct calls of a step that a class overrides *)

MaxOverridePhrases == 2

OverridePhrases ==
    << <<"R","s"," ","5","0","0"," ","d","e","b","i","t","e","d">>, <<"I","N","R"," ","7","0"," ","d","e","d","u","c","t","e","d">>, <<"c","r","e","d","i","t","e","d">>, <<"A","E","D"," ","7","5",".","5","0"," ","p","u","r","c","h","a","s","e">>, <<"r","e","f","u","n","d">>,
       <<"u0628","u0631","u062f","u0627","u0634","u062a"," ","u0645","u0628","u0644","u063a"," ","2","5",",","0","0","0"," ","u0631","u06cc","u0627","u0644">>, <<"u0648","u0627","u0631","u06cc","u0632"," ","9","0","0"," ","u062a","u0648","u0645","u0627","u0646">>, <<"W","i","t","h","d","r","a","w","a","l"," ","1",",","2","5","0",".","0","0"," ","T","H","B">>,
       <<"u0e40","u0e07","u0e34","u0e19","u0e40","u0e02","u0e49","u0e32"," ","5","0","0"," ","u0e1a","u0e32","u0e17">>, <<"m","u","t","u","a","l"," ","f","u","n","d">> >>

\* the overriding classes, by the leaf that stands for them
OverrideCalls ==
    (({"extract_amount"} \X {ENBD, Melli, Bangkok})
         \cup ({"extract_transaction_type"} \X {HDFC, ENBD, Melli, Bangkok}))
    \X BodiesOf(OverridePhrases, MaxOverridePhrases)

InitOverrides ==
    /\ \E c \in OverrideCalls :
          /\ ret = [fn |-> c[1][1], body |-> c[2], value |-> None]
          /\ sel = Some(c[1][2])
    /\ req = [body |-> ret.body, sender |-> <<>>, timestamp |-> 1]
    /\ pc = "override"
    /\ part = NoPart
    /\ out = Pending
    /\ ident = None
    /\ known = None
    /\ first = None
    /\ shared = Registered
    /\ calls = NoCalls

CallOverriddenAmount ==
    /\ pc = "override"
    /\ ret.fn = "extract_amount"
    /\ ret.value = None
    /\ ret' = [ret EXCEPT !.value = Some(extract_amount(sel[1], ret.body))]
    /\ UNCHANGED <<req, pc, sel, part, out, ident, known, first, shared, calls>>

CallOverriddenKind ==
    /\ pc = "override"
    /\ ret.fn = "extract_transaction_type"
    /\ ret.value = None
    /\ ret' = [ret EXCEPT !.value = Some(extract_transaction_type(sel[1], ret.body))]
    /\ UNCHANGED <<req, pc, sel, part, out, ident, known, first, shared, calls>>

NextOverrides ==
    \/ CallOverriddenAmount
    \/ CallOverriddenKind

SpecOverrides == InitOverrides /\ [][NextOverrides]_vars

----------------------------------------------------------------------------
(* Direct calls of one step of the default parser *)

InitSteps ==
    /\ \E c \in StepCalls : ret = [fn |-> c[1], body |-> c[2], value |-> None]
    /\ req = [body |-> ret.body, sender |-> <<>>, timestamp |-> 1]
    /\ pc = "step"
    /\ sel = None
    /\ part = NoPart
    /\ out = Pending
    /\ ident = None
    /\ known = None
    /\ first = None
    /\ shared = Registered
    /\ calls = NoCalls

CallIsTransactionMessage ==
    /\ ret.fn = "is_transaction_message"
    /\ ret.value = None
    /\ ret' = [ret EXCEPT !.value = Some(BankParser_is_transaction_message(ret.body))]
    /\ UNCHANGED <<req, pc, sel, part, out, ident, known, first, shared, calls>>

CallExtractTransactionType ==
    /\ ret.fn = "extract_transaction_type"
    /\ ret.value = None
    /\ ret' = [ret EXCEPT !.value = Some(BankParser_extract_transaction_type(ret.body))]
    /\ UNCHANGED <<req, pc, sel, part, out, ident, known, first, shared, calls>>

CallExtractAccountLast4 ==
    /\ ret.fn = "extract_account_last4"
    /\ ret.value = None
    /\ ret' = [ret EXCEPT !.value = Some(BankParser_extract_account_last4(ret.body))]
    /\ UNCHANGED <<req, pc, sel, part, out, ident, known, first, shared, calls>>

CallExtractAmount ==
    /\ ret.fn = "extract_amount"
    /\ ret.value = None
    /\ ret' = [ret EXCEPT !.value = Some(BankParser_extract_amount(ret.body))]
    /\ UNCHANGED <<req, pc, sel, part, out, ident, known, first, shared, calls>>

CallExtractBalance ==
    /\ ret.fn = "extract_balance"
    /\ ret.value = None
    /\ ret' = [ret EXCEPT !.value = Some(BankParser_extract_balance(ret.body))]
    /\ UNCHANGED <<req, pc, sel, part, out, ident, known, first, shared, calls>>

NextSteps ==
    \/ CallIsTransactionMessage
    \/ CallExtractTransactionType
    \/ CallExtractAccountLast4
    \/ CallExtractAmount
    \/ CallExtractBalance

SpecSteps == InitSteps /\ [][NextSteps]_vars

----------------------------------------------------------------------------
(* Transactions built directly, and their identities *)

IdAmounts ==
    { [c |-> 100, e |-> 0], [c |-> 10000, e |-> 2], [c |-> 100004, e |-> 3],
      [c |-> 100005, e |-> 3], [c |-> 10001, e |-> 2] }

\* what the identity must not depend on, in two variants
OtherFields ==
    << [type |-> EXPENSE, timestamp |-> 1, bank_name |-> <<"H","D","F","C"," ","B","a","n","k">>, merchant |-> Some(<<"A","M","A","Z","O","N">>),
        reference |-> None, account_last4 |-> Some(<<"4","3","2","1">>), balance |-> None, currency |-> <<"I","N","R">>],
       [type |-> INCOME, timestamp |-> 2, bank_name |-> <<"C","a","n","a","r","a"," ","B","a","n","k">>, merchant |-> None,
        reference |-> Some(<<"R","1">>), account_last4 |-> None, balance |-> Some([c |-> 5, e |-> 0]),
        currency |-> <<"A","E","D">>] >>

DirectTransactions ==
    { ParsedTransaction(a, OtherFields[v].type, b, s, OtherFields[v].timestamp,
                        OtherFields[v].bank_name, OtherFields[v].merchant, OtherFields[v].reference,
                        OtherFields[v].account_last4, OtherFields[v].balance, None, FALSE,
                        OtherFields[v].currency) :
        a \in IdAmounts, b \in {<<"R","s"," ","1","0","0"," ","d","e","b","i","t","e","d">>, <<"R","s"," ","1","0","0"," ","p","a","i","d">>},
        s \in {<<"H","D","F","C","B","K">>, <<"C","A","N","B","N","K">>}, v \in 1..2 }

InitIdentity ==
    /\ \E t \in DirectTransactions : out = [tag |-> "txn", txn |-> Some(t)]
    /\ req = [body |-> out.txn[1].sms_body, sender |-> out.txn[1].sender,
              timestamp |-> out.txn[1].timestamp]
    /\ pc = "done"
    /\ sel = None
    /\ part = NoPart
    /\ ident = None
    /\ known = None
    /\ first = None
    /\ ret = NoCall
    /\ shared = Registered
    /\ calls = NoCalls

\* a second transaction is built; the first and its identity are kept for comparison
ConstructAnother ==
    /\ pc = "done"
    /\ first = None
    /\ ident # None
    /\ first' = Some([req |-> req, out |-> out, ident |-> ident])
    /\ \E t \in DirectTransactions :
          /\ out' = [tag |-> "txn", txn |-> Some(t)]
          /\ req' = [body |-> t.sms_body, sender |-> t.sender, timestamp |-> t.timestamp]
    /\ ident' = None
    /\ UNCHANGED <<pc, sel, part, known, ret, shared, calls>>

NextIdentity ==
    \/ GenerateTransactionId
    \/ ConstructAnother

SpecIdentity == InitIdentity /\ [][NextIdentity]_vars

-----------------------------------------------------------------------------
(* Lookups in the catalog: every registered parser is put to the question  *)
(* with every sender of a pool built from the codes the parsers look for.  *)

CatalogPrefixes == << <<>>, <<"A","D","-">>, <<"v","m","-">> >>

CatalogCodes == << <<"H","D","F","C","B","K">>, <<"S","B","I","B","N","K">>, <<"I","N","D","B","N","K">>, <<"U","T","K","S","P","R">>, <<"C","A","N","B","N","K">>, <<"B","A","N","D","H","A","N">>, <<"F","A","B">>, <<"E","N","B","D">>, <<"M","P","E","S","A">>, <<"M","-","P","E","S","A">>, <<"V","o","d","a","c","o","m">>, <<"M","E","L","L","I">>, <<"B","B","L">>, <<"B","A","N","G","K","O","K","B","A","N","K">>, <<"N","O","B","A","N","K">> >>

CatalogSenders ==
    { CatalogPrefixes[i] \o CatalogCodes[j] : i \in 1..Len(CatalogPrefixes), j \in 1..Len(CatalogCodes) }

InitCatalog ==
    /\ \E sender \in CatalogSenders : req = [body |-> <<>>, sender |-> sender, timestamp |-> 1]
    /\ \E k \in 1..Len(Factory_parsers) : ret = [fn |-> "get_parser", probe |-> Factory_parsers[k]]
    /\ pc = "catalog"
    /\ sel = None
    /\ part = NoPart
    /\ out = Pending
    /\ ident = None
    /\ known = None
    /\ first = None
    /\ shared = Registered
    /\ calls = NoCalls

CatalogGetParser ==
    /\ pc = "catalog"
    /\ sel' = Factory_get_parser(req.sender)
    /\ pc' = "looked"
    /\ UNCHANGED <<req, part, out, ident, known, first, ret, shared, calls>>

CatalogIsKnownBankSender ==
    /\ pc = "looked"
    /\ known' = Some(is_known_bank_sender(req.sender))
    /\ pc' = "done"
    /\ UNCHANGED <<req, sel, part, out, ident, first, ret, shared, calls>>

NextCatalog ==
    \/ CatalogGetParser
    \/ CatalogIsKnownBankSender

SpecCatalog == InitCatalog /\ [][NextCatalog]_vars

-----------------------------------------------------------------------------
(* Whole messages, as a bank sends them, through the pipeline *)

SbiDebit == <<"R","s",".","1",",","2","3","4",".","5","6"," ","d","e","b","i","t","e","d"," ","f","r","o","m"," ","A","/","c"," ","X","X","4","3","2","1"," ","o","n"," ","0","5","-","0","1","-","2","4"," ","t","o"," ","A","M","A","Z","O","N","."," ","A","v","l"," ","B","a","l"," ","R","s",".","9",",","8","7","6",".","5","4">>

LoanOffer == <<"C","o","n","g","r","a","t","u","l","a","t","i","o","n","s","!"," ","Y","o","u"," ","a","r","e"," ","e","l","i","g","i","b","l","e"," ","f","o","r"," ","a"," ","p","r","e","-","a","p","p","r","o","v","e","d"," ","p","e","r","s","o","n","a","l"," ","l","o","a","n"," ","u","p"," ","t","o"," ","R","s"," ","2",",","0","0",",","0","0","0","."," ","A","p","p","l","y"," ","n","o","w","!">>

CardOffer == <<"Y","o","u"," ","a","r","e"," ","p","r","e","-","a","p","p","r","o","v","e","d"," ","f","o","r"," ","a"," ","c","r","e","d","i","t"," ","c","a","r","d"," ","w","i","t","h"," ","l","i","m","i","t"," ","u","p"," ","t","o"," ","R","s"," ","5",",","0","0",",","0","0","0",","," ","a","p","p","l","y"," ","n","o","w">>

MandateNotice == <<"A","n"," ","e","-","m","a","n","d","a","t","e"," ","o","f"," ","R","s"," ","4","9","9"," ","t","o","w","a","r","d","s"," ","N","e","t","f","l","i","x"," ","w","i","l","l"," ","b","e"," ","d","e","b","i","t","e","d"," ","o","n"," ","0","5","-","J","a","n">>

RupeeSign == <<"R","s"," ","5","0","0"," ","d","e","b","i","t","e","d"," ","f","r","o","m"," ","A","/","c"," ","X","X","4","3","2","1","."," ","B","a","l"," ","rupee","9",",","0","0","0">>

PlainDebit == <<"I","N","R"," ","2","5","0",".","0","0"," ","s","p","e","n","t"," ","a","t"," ","B","I","G"," ","B","A","Z","A","A","R"," ","o","n"," ","0","5","-","0","1","-","2","4">>

MessageBodies == {SbiDebit, LoanOffer, CardOffer, MandateNotice, RupeeSign, PlainDebit}

MessageSenders == { <<"X","X","-","S","B","I","B","N","K","-","S">>, <<"X","X","-","H","D","F","C","B","K","-","P">>, <<"U","T","K","S","P","R">>, <<"E","N","B","D">>, <<"N","O","B","A","N","K">> }

InitMessages ==
    /\ req \in [body : MessageBodies, sender : MessageSenders, timestamp : Timestamps]
    /\ pc = "dispatch"
    /\ sel = None
    /\ part = NoPart
    /\ out = Pending
    /\ ident = None
    /\ known = None
    /\ first = None
    /\ ret = NoCall
    /\ shared = Registered
    /\ calls = NoCalls

NextMessages ==
    \/ FactoryGetParser
    \/ Classify
    \/ ExtractAmount
    \/ ExtractKind
    \/ Construct
    \/ SBIPost
    \/ UAEPost
    \/ GenerateTransactionId

SpecMessages == InitMessages /\ [][NextMessages]_vars

-----------------------------------------------------------------------------
(* Direct calls of parse_mandate_subscription *)

MaxMandatePhrases == 2

MandatePhrases ==
    << <<"A","n"," ","e","-","m","a","n","d","a","t","e"," ","o","f"," ","R","s"," ","4","9","9"," ","t","o","w","a","r","d","s"," ","N","e","t","f","l","i","x"," ","w","i","l","l"," ","b","e"," ","d","e","b","i","t","e","d"," ","o","n"," ","0","5","-","J","a","n">>, <<"e","-","m","a","n","d","a","t","e">>,
       <<"w","i","l","l"," ","b","e"," ","d","e","b","i","t","e","d">>, <<"u","p","c","o","m","i","n","g"," ","m","a","n","d","a","t","e">>, <<"R","s"," ","4","9","9">>, <<"I","N","R"," ","2","0">>, <<"t","o","w","a","r","d","s"," ","N","e","t","f","l","i","x">>,
       <<"o","n"," ","0","5","-","J","a","n">>, <<"U","M","N",":"," ","a","b","c","@","x">>, <<"R","s"," ","5","0","0"," ","d","e","b","i","t","e","d">>, <<"s","u","c","c","e","s","s","f","u","l","l","y"," ","c","r","e","a","t","e","d">> >>

InitMandates ==
    /\ \E body \in BodiesOf(MandatePhrases, MaxMandatePhrases) :
          ret = [fn |-> "parse_mandate_subscription", body |-> body, value |-> None]
    /\ req = [body |-> ret.body, sender |-> <<>>, timestamp |-> 1]
    /\ pc = "mandate"
    /\ sel = None
    /\ part = NoPart
    /\ out = Pending
    /\ ident = None
    /\ known = None
    /\ first = None
    /\ shared = Registered
    /\ calls = NoCalls

CallParseMandateSubscription ==
    /\ pc = "mandate"
    /\ ret.value = None
    /\ ret' = [ret EXCEPT !.value = Some(parse_mandate_subscription(ret.body))]
    /\ UNCHANGED <<req, pc, sel, part, out, ident, known, first, shared, calls>>

NextMandates == CallParseMandateSubscription

----------------------------------------------------------------------------
(* Messages of the Gulf parsers: card purchases, transfers, dates, limits *)

MaxGulfPhrases == 2

GulfPhrases ==
    << <<"D","e","b","i","t"," ","C","a","r","d"," ","P","u","r","c","h","a","s","e">>, <<"C","r","e","d","i","t"," ","C","a","r","d"," ","P","u","r","c","h","a","s","e">>, <<"A","E","D"," ","7","5",".","5","0">>, <<"o","n"," ","J","a","n"," ","1","5">>,
       <<"A","v","a","i","l","a","b","l","e"," ","l","i","m","i","t"," ","R","s"," ","5",",","0","0","0">>, <<"f","u","n","d","s"," ","t","r","a","n","s","f","e","r"," ","r","e","q","u","e","s","t"," ","o","f"," ","U","S","D"," ","1","0"," ","h","a","s"," ","b","e","e","n"," ","p","r","o","c","e","s","s","e","d">>,
       <<"f","r","o","m"," ","a","c","c","o","u","n","t"," ","X","X","X","X","1","2","3","4"," ","t","o"," ","a","c","c","o","u","n","t"," ","X","X","X","X","5","6","7","8">> >>

GulfSenders == { <<"F","A","B">>, <<"A","D","-","F","A","B","-","S">>, <<"E","N","B","D">> }

GulfRequests ==
    [body : BodiesOf(GulfPhrases, MaxGulfPhrases), sender : GulfSenders, timestamp : {1}]

InitGulf ==
    /\ req \in GulfRequests
    /\ pc = "dispatch"
    /\ sel = None
    /\ part = NoPart
    /\ out = Pending
    /\ ident = None
    /\ known = None
    /\ first = None
    /\ ret = NoCall
    /\ shared = Registered
    /\ calls = NoCalls

NextGulf ==
    \/ FactoryGetParser
    \/ Classify
    \/ ExtractAmount
    \/ ExtractKind
    \/ Construct
    \/ UAEPost
    \/ GenerateTransactionId

SpecGulf == InitGulf /\ [][NextGulf]_vars

----------------------------------------------------------------------------
(* Messages that name an investment next to a verb of payment *)

MaxInvestPhrases == 2

InvestPhrases ==
    << <<"m","u","t","u","a","l"," ","f","u","n","d">>, <<"v","i","a"," ","g","r","o","w","w">>, <<"R","s"," ","5","0","0"," ","d","e","b","i","t","e","d">>, <<"R","s"," ","5","0","0"," ","w","i","t","h","d","r","a","w","n">>, <<"R","s"," ","5","0","0"," ","c","r","e","d","i","t","e","d">>,
       <<"A","E","D"," ","7","5",".","5","0"," ","d","e","b","i","t","e","d">>, <<"R","s"," ","5","0","0"," ","p","a","i","d">> >>

InvestSenders == { <<"S","B","I","B","N","K">>, <<"I","N","D","B","N","K">>, <<"E","N","B","D">>, <<"F","A","B">>, <<"U","T","K","S","P","R">> }

InvestRequests ==
    [body : BodiesOf(InvestPhrases, MaxInvestPhrases), sender : InvestSenders, timestamp : {1}]

InitInvest ==
    /\ req \in InvestRequests
    /\ pc = "dispatch"
    /\ sel = None
    /\ part = NoPart
    /\ out = Pending
    /\ ident = None
    /\ known = None
    /\ first = None
    /\ ret = NoCall
    /\ shared = Registered
    /\ calls = NoCalls

NextInvest ==
    \/ FactoryGetParser
    \/ Classify
    \/ ExtractAmount
    \/ ExtractKind
    \/ Construct
    \/ SBIPost
    \/ UAEPost
    \/ GenerateTransactionId

SpecInvest == InitInvest /\ [][NextInvest]_vars

SpecMandates == InitMandates /\ [][NextMandates]_vars

-----------------------------------------------------------------------------
(* parse as one call, and the two callers that hand it a batch *)

\* what the parse of SBIBankParser and of UAEBankParser do with the transaction of super().parse
AfterSuper(p, sms_body, sender, parsed) ==
    IF parsed.tag # "txn" THEN parsed
    ELSE IF p = SBI
    THEN IF is_credit_card_message(sender, parse_input(SBI, sms_body))
         THEN SBI_card(parsed.txn[1], lower(parse_input(SBI, sms_body)),
                       extract_credit_card_last4(parse_input(SBI, sms_body)),
                       SBI_extract_available_limit(parse_input(SBI, sms_body)),
                       extract_credit_card_merchant(parse_input(SBI, sms_body)))
         ELSE parsed
    ELSE IF p = ENBD
    THEN [parsed EXCEPT !.txn = Some(WithCurrency(parsed.txn[1], UAE_extract_currency(sms_body)))]
    ELSE parsed

\* BankParser.parse on the body the parser works on, once amount and kind are at hand
ParseWith(p, body, sender, timestamp, amount, txn_type) ==
    IF amount = None \/ txn_type = None THEN [tag |-> "none", txn |-> None]
    ELSE Returned(p, body, sender, timestamp, amount[1], txn_type[1],
                  IF txn_type[1] = CREDIT THEN extract_available_limit(p, body) ELSE None,
                  extract_merchant(p, body, sender))

parse(p, sms_body, sender, timestamp) ==
    IF ~is_transaction_message(p, parse_input(p, sms_body)) THEN [tag |-> "none", txn |-> None]
    ELSE AfterSuper(p, sms_body, sender,
                    ParseWith(p, parse_input(p, sms_body), sender, timestamp,
                              extract_amount(p, parse_input(p, sms_body)),
                              extract_transaction_type(p, parse_input(p, sms_body))))

MaxBatch == 3

\* the messages of a batch: address and body
BatchMessages ==
    { <<<<"U","T","K","S","P","R">>, <<"R","s"," ","5","0","0"," ","d","e","b","i","t","e","d">>>>, <<<<"U","T","K","S","P","R">>, <<"p","r","e","-","a","p","p","r","o","v","e","d">>>>,
      <<<<"N","O","B","A","N","K">>, <<"R","s"," ","5","0","0"," ","d","e","b","i","t","e","d">>>>, <<<<"B","A","N","D","H","A","N">>, <<"R","s"," ","5","0","0"," ","d","e","b","i","t","e","d">>>>,
      <<<<"A","D","-","H","D","F","C","S","B","I">>, <<"R","s"," ","9"," ","t","r","a","n","s","f","e","r","r","e","d">>>> }

SMSRequest(address, body, date) == [address |-> address, body |-> body, date |-> date]

Batches ==
    UNION { [1..n -> {SMSRequest(m[1], m[2], 1) : m \in BatchMessages}] : n \in 1..MaxBatch }

\* one entry of results, or one row written; k is the place of the message in the batch
Entry(k, status, transaction_id) == [k |-> k, status |-> status, transaction_id |-> transaction_id]

RECURSIVE parse_sms_batch(_, _, _)

\* the body of the loop of parse_sms_batch after parser.parse: an exception leaves the function
BatchParsed(requests, k, results, parsed_txn) ==
    IF parsed_txn.tag = "raise" THEN [tag |-> "raise", emitted |-> <<>>]
    ELSE IF parsed_txn.tag = "none"
    THEN parse_sms_batch(requests, k + 1, Append(results, Entry(k, "unparsed", None)))
    ELSE parse_sms_batch(requests, k + 1,
             Append(results, Entry(k, "success", Some(generate_transaction_id(parsed_txn.txn[1])))))

BatchLookedUp(requests, k, results, parser) ==
    IF parser = None
    THEN parse_sms_batch(requests, k + 1, Append(results, Entry(k, "error", None)))
    ELSE BatchParsed(requests, k, results,
                     parse(parser[1], requests[k].body, requests[k].address, requests[k].date))

parse_sms_batch(requests, k, results) ==
    IF k > Len(requests) THEN [tag |-> "return", emitted |-> results]
    ELSE BatchLookedUp(requests, k, results, Factory_get_parser(requests[k].address))

RECURSIVE process_sms_data(_, _, _)

\* the body of the loop of process_sms_data after parser.parse: the rows written so far stay written
RowParsed(rows, k, written, parsed_txn) ==
    IF parsed_txn.tag = "raise" THEN [tag |-> "raise", emitted |-> written]
    ELSE IF parsed_txn.tag = "none"
    THEN process_sms_data(rows, k + 1, Append(written, Entry(k, "row", None)))
    ELSE process_sms_data(rows, k + 1, Append(written, Entry(k, "parsed", None)))

RowLookedUp(rows, k, written, parser) ==
    IF parser = None
    THEN process_sms_data(rows, k + 1, Append(written, Entry(k, "row", None)))
    ELSE RowParsed(rows, k, written, parse(parser[1], rows[k].body, rows[k].address, rows[k].date))

process_sms_data(rows, k, written) ==
    IF k > Len(rows) THEN [tag |-> "return", emitted |-> written]
    ELSE RowLookedUp(rows, k, written, Factory_get_parser(rows[k].address))

\* what the endpoint of one message answers: the status code, and the body when it is 200
Answer(status_code, result) == [tag |-> "return", status_code |-> status_code, result |-> result]

\* parse_sms after parser.parse: an exception of parse leaves the handler
SingleParsed(request, parsed_txn) ==
    IF parsed_txn.tag = "raise" THEN [tag |-> "raise", status_code |-> 500, result |-> None]
    ELSE IF parsed_txn.tag = "none" THEN Answer(422, None)
    ELSE Answer(200, Some(Entry(1, "success", Some(generate_transaction_id(parsed_txn.txn[1])))))

SingleLookedUp(request, parser) ==
    IF parser = None THEN Answer(404, None)
    ELSE SingleParsed(request, parse(parser[1], request.body, request.address, request.date))

parse_sms(request) == SingleLookedUp(request, Factory_get_parser(request.address))

InitBatches ==
    /\ \E requests \in Batches : \E fn \in {"parse_sms_batch", "process_sms_data", "parse_sms"} :
          /\ fn = "parse_sms" => Len(requests) = 1
          /\ ret = [fn |-> fn, requests |-> requests, value |-> None]
          /\ pc = IF fn = "parse_sms" THEN "single" ELSE "batch"
    /\ req = [body |-> <<>>, sender |-> <<>>, timestamp |-> 1]
    /\ sel = None
    /\ part = NoPart
    /\ out = Pending
    /\ ident = None
    /\ known = None
    /\ first = None
    /\ shared = Registered
    /\ calls = NoCalls

ParseSmsBatch ==
    /\ pc = "batch"
    /\ ret.fn = "parse_sms_batch"
    /\ ret.value = None
    /\ ret' = [ret EXCEPT !.value = Some(parse_sms_batch(ret.requests, 1, <<>>))]
    /\ UNCHANGED <<req, pc, sel, part, out, ident, known, first, shared, calls>>

ProcessSmsData ==
    /\ pc = "batch"
    /\ ret.fn = "process_sms_data"
    /\ ret.value = None
    /\ ret' = [ret EXCEPT !.value = Some(process_sms_data(ret.requests, 1, <<>>))]
    /\ UNCHANGED <<req, pc, sel, part, out, ident, known, first, shared, calls>>

ParseSms ==
    /\ pc = "single"
    /\ ret.value = None
    /\ ret' = [ret EXCEPT !.value = Some(parse_sms(ret.requests[1]))]
    /\ UNCHANGED <<req, pc, sel, part, out, ident, known, first, shared, calls>>

NextBatches ==
    \/ ParseSmsBatch
    \/ ProcessSmsData
    \/ ParseSms

SpecBatches == InitBatches /\ [][NextBatches]_vars

-----------------------------------------------------------------------------
(* Calls that run side by side on the parsers of the factory *)

Threads == 1..2

ThreadBodies == { <<"R","s"," ","5","0","0"," ","d","e","b","i","t","e","d">>, <<"A","E","D"," ","7","5",".","5","0"," ","d","e","b","i","t","e","d"," ","f","r","o","m"," ","a","c","c","o","u","n","t">> }

ThreadSenders == { <<"A","D","-","H","D","F","C","S","B","I">>, <<"S","B","I","B","N","K">>, <<"E","N","B","D">> }

\* the frame of a call: its arguments and its local variables
Frame(fn, body, sender) ==
    [fn |-> fn, body |-> body, sender |-> sender, at |-> "dispatch", parser |-> None,
     part |-> NoPart, out |-> Pending]

ThreadCalls ==
    {Frame("parse", b, s) : b \in ThreadBodies, s \in ThreadSenders}
    \cup {Frame("get_parser", <<>>, s) : s \in ThreadSenders}

InitThreads ==
    /\ calls \in [Threads -> ThreadCalls]
    /\ shared = Registered
    /\ pc = "threads"
    /\ req = [body |-> <<>>, sender |-> <<>>, timestamp |-> 1]
    /\ sel = None
    /\ part = NoPart
    /\ out = Pending
    /\ ident = None
    /\ known = None
    /\ first = None
    /\ ret = NoCall

\* a variant of the lookup that moves the parser it finds to the front of the list
GetParserOf_moves(t) ==
    /\ calls[t].at = "dispatch"
    /\ LET found == Registry_get_parser(shared.parsers, calls[t].sender)
       IN  /\ calls' = [calls EXCEPT ![t].parser = found,
                                     ![t].at = IF found = None \/ calls[t].fn = "get_parser"
                                               THEN "done" ELSE "guard",
                                     ![t].out = IF found = None
                                                THEN [tag |-> "noparser", txn |-> None]
                                                ELSE @]
           /\ shared' = IF found = None THEN shared
                        ELSE [shared EXCEPT !.parsers =
                                  <<found[1]>> \o SelectSeq(shared.parsers, LAMBDA q : q # found[1])]
    /\ UNCHANGED <<req, pc, sel, part, out, ident, known, first, ret>>

\* BankParserFactory.get_parser: the loop over cls._parsers, which it reads and leaves alone
GetParserOf(t) ==
    /\ calls[t].at = "dispatch"
    /\ LET found == Registry_get_parser(shared.parsers, calls[t].sender)
       IN  calls' = [calls EXCEPT ![t].parser = found,
                                 ![t].at = IF found = None \/ calls[t].fn = "get_parser"
                                           THEN "done" ELSE "guard",
                                 ![t].out = IF found = None
                                            THEN [tag |-> "noparser", txn |-> None]
                                            ELSE @]
    /\ UNCHANGED <<req, pc, sel, part, out, ident, known, first, ret, shared>>

\* the steps of parse in the frame of call t; none of them assigns to self or to a class
ClassifyOf(t) ==
    /\ calls[t].at = "guard"
    /\ calls' = IF is_transaction_message(calls[t].parser[1],
                                          parse_input(calls[t].parser[1], calls[t].body))
                THEN [calls EXCEPT ![t].at = "amount"]
                ELSE [calls EXCEPT ![t].at = "done", ![t].out = [tag |-> "none", txn |-> None]]
    /\ UNCHANGED <<req, pc, sel, part, out, ident, known, first, ret, shared>>

ExtractAmountOf(t) ==
    /\ calls[t].at = "amount"
    /\ LET amount == extract_amount(calls[t].parser[1],
                                    parse_input(calls[t].parser[1], calls[t].body))
       IN  calls' = IF amount = None
                    THEN [calls EXCEPT ![t].at = "done", ![t].out = [tag |-> "none", txn |-> None]]
                    ELSE [calls EXCEPT ![t].at = "kind", ![t].part.amount = amount]
    /\ UNCHANGED <<req, pc, sel, part, out, ident, known, first, ret, shared>>

ExtractKindOf(t) ==
    /\ calls[t].at = "kind"
    /\ LET txn_type == extract_transaction_type(calls[t].parser[1],
                                                parse_input(calls[t].parser[1], calls[t].body))
       IN  calls' = IF txn_type = None
                    THEN [calls EXCEPT ![t].at = "done", ![t].out = [tag |-> "none", txn |-> None]]
                    ELSE [calls EXCEPT ![t].at = "side", ![t].part.type = txn_type]
    /\ UNCHANGED <<req, pc, sel, part, out, ident, known, first, ret, shared>>

ConstructOf(t) ==
    /\ calls[t].at = "side"
    /\ calls' = [calls EXCEPT
                    ![t].out = ParseWith(calls[t].parser[1],
                                         parse_input(calls[t].parser[1], calls[t].body),
                                         calls[t].sender, 1, calls[t].part.amount,
                                         calls[t].part.type),
                    ![t].at = "post"]
    /\ UNCHANGED <<req, pc, sel, part, out, ident, known, first, ret, shared>>

\* the parse of SBIBankParser and of UAEBankParser assign to the transaction of this call
PostOf(t) ==
    /\ calls[t].at = "post"
    /\ calls' = [calls EXCEPT
                    ![t].out = AfterSuper(calls[t].parser[1], calls[t].body, calls[t].sender, @),
                    ![t].at = "done"]
    /\ UNCHANGED <<req, pc, sel, part, out, ident, known, first, ret, shared>>

NextThreads ==
    \E t \in Threads :
        \/ GetParserOf(t)
        \/ ClassifyOf(t)
        \/ ExtractAmountOf(t)
        \/ ExtractKindOf(t)
        \/ ConstructOf(t)
        \/ PostOf(t)

SpecThreads == InitThreads /\ [][NextThreads]_vars

----------------------------------------------------------------------------
(* The properties *)

\* the body the selected parser's steps are given
Input == parse_input(sel[1], req.body)

\* BankParser.parse has returned: SBIBankParser.parse goes on from "post"
ParseReturned ==
    /\ sel # None
    /\ \/ pc = "post"
       \/ pc = "done" /\ (sel[1] # SBI \/ out.tag = "none")

Mandatory(p, message) ==
    /\ is_transaction_message(p, message)
    /\ extract_amount(p, message) # None
    /\ extract_transaction_type(p, message) # None

(* C1: BankParser.parse returns a Transaction if and only if the guard is  *)
(* true and amount and kind are both found, and none in every other case;  *)
(* the side extractions never change which of the two it returns.           *)
C1_BinaryOutcome ==
    ParseReturned => out.tag = (IF Mandatory(sel[1], Input) THEN "txn" ELSE "none")

\* the keywords the kind rules of a parser test; UtkarshBankParser's rule tests none
default_kind_keywords ==
    investment_keywords \o
    <<<<"d","e","b","i","t","e","d">>, <<"w","i","t","h","d","r","a","w","n">>, <<"s","p","e","n","t">>, <<"c","h","a","r","g","e","d">>, <<"p","a","i","d">>, <<"p","u","r","c","h","a","s","e">>, <<"d","e","d","u","c","t","e","d">>,
      <<"c","r","e","d","i","t","e","d">>, <<"d","e","p","o","s","i","t","e","d">>, <<"r","e","c","e","i","v","e","d">>, <<"r","e","f","u","n","d">>, <<"c","a","s","h","b","a","c","k">>>>

KindKeywords(p) ==
    CASE p = Utkarsh -> <<>>
      [] p = HDFC -> default_kind_keywords \o <<<<"b","l","o","c","k"," ","c","c">>, <<"b","l","o","c","k"," ","p","c","c">>, <<"p","a","y","m","e","n","t">>, <<"t","o","w","a","r","d","s">>, <<"s","e","n","t">>>>
      [] p = SBI -> default_kind_keywords \o
                    <<<<"t","r","a","n","s","f","e","r","r","e","d">>, <<"p","a","i","d"," ","t","o">>, <<"a","t","m"," ","w","i","t","h","d","r","a","w","a","l">>, <<"b","y"," ","s","b","i"," ","d","e","b","i","t"," ","c","a","r","d">>, <<"p","a","y","m","e","n","t"," ","o","f">>>>
      [] OTHER -> default_kind_keywords

(* C2: every Transaction parse returns has a kind that is one of the six   *)
(* variants and never null, and the kind comes from a keyword rule that    *)
(* matched the body: no kind is assigned when no rule matched.              *)
C2_KindFromRule ==
    pc = "done" /\ out.tag = "txn" =>
        /\ out.txn[1].type \in TransactionType
        /\ ContainsAny(lower(out.txn[1].sms_body), KindKeywords(sel[1]))

debit_verbs == <<<<"d","e","b","i","t","e","d">>, <<"w","i","t","h","d","r","a","w","n">>, <<"s","p","e","n","t">>, <<"c","h","a","r","g","e","d">>, <<"p","a","i","d">>, <<"p","u","r","c","h","a","s","e">>, <<"d","e","d","u","c","t","e","d">>>>

\* the priority with cashback a credit verb like the others
KindAsStated(low) ==
    IF ContainsAny(low, investment_keywords) THEN Some(INVESTMENT)
    ELSE IF ContainsAny(low, debit_verbs) THEN Some(EXPENSE)
    ELSE IF ContainsAny(low, <<<<"c","r","e","d","i","t","e","d">>, <<"d","e","p","o","s","i","t","e","d">>, <<"r","e","c","e","i","v","e","d">>, <<"r","e","f","u","n","d">>, <<"c","a","s","h","b","a","c","k">>>>)
         THEN Some(INCOME)
    ELSE None

\* the same priority, cashback counting only in a body without "earn cashback"
KindAmended(low) ==
    IF ContainsAny(low, investment_keywords) THEN Some(INVESTMENT)
    ELSE IF ContainsAny(low, debit_verbs) THEN Some(EXPENSE)
    ELSE IF \/ ContainsAny(low, <<<<"c","r","e","d","i","t","e","d">>, <<"d","e","p","o","s","i","t","e","d">>, <<"r","e","c","e","i","v","e","d">>, <<"r","e","f","u","n","d">>>>)
            \/ (Contains(low, <<"c","a","s","h","b","a","c","k">>) /\ ~Contains(low, <<"e","a","r","n"," ","c","a","s","h","b","a","c","k">>))
         THEN Some(INCOME)
    ELSE None

(* C3, as stated: the default extract_transaction_type resolves the kind   *)
(* by strict priority: investment keywords, then the debit verbs (Expense), *)
(* then the credit verbs credited, deposited, received, refund, cashback    *)
(* (Income), and null otherwise.                                            *)
C3_PriorityAsStated ==
    ret.fn = "extract_transaction_type" /\ ret.value # None =>
        ret.value[1] = KindAsStated(lower(ret.body))

(* C3, amended: the same strict priority, where cashback counts as a       *)
(* credit verb only when the body does not contain "earn cashback".         *)
C3_Priority ==
    ret.fn = "extract_transaction_type" /\ ret.value # None =>
        ret.value[1] = KindAmended(lower(ret.body))

\* a body with "earn cashback" and nothing else that decides the kind got null
C3_EarnCashback ==
    /\ ret.fn = "extract_transaction_type"
    /\ Contains(lower(ret.body), <<"e","a","r","n"," ","c","a","s","h","b","a","c","k">>)
    /\ ret.value = Some(None)

\* a rejection rule of the default guard fires
RejectionFires(low) ==
    \/ ContainsAny(low, otp_keywords)
    \/ ContainsAny(low, promotional_keywords)
    \/ ContainsAny(low, payment_request_keywords)
    \/ Contains(low, <<"h","a","v","e"," ","r","e","c","e","i","v","e","d"," ","p","a","y","m","e","n","t">>)
    \/ ContainsAny(low, bill_due_keywords)
    \/ (Contains(low, <<"p","l","s"," ","p","a","y">>) /\ Contains(low, <<"m","i","n"," ","o","f">>))

verbs_as_stated == <<<<"d","e","b","i","t","e","d">>, <<"c","r","e","d","i","t","e","d">>, <<"w","i","t","h","d","r","a","w","n">>, <<"s","p","e","n","t">>, <<"r","e","c","e","i","v","e","d">>, <<"t","r","a","n","s","f","e","r","r","e","d">>, <<"p","a","i","d">>>>

(* C4, as stated: the default is_transaction_message is true only if the   *)
(* body has a verb among debited, credited, withdrawn, spent, received,    *)
(* transferred, paid and no rejection rule fires; when a rejection rule    *)
(* fires the result is false whatever verbs are present.                    *)
C4_GuardAsStated ==
    ret.fn = "is_transaction_message" /\ ret.value # None =>
        /\ ret.value[1] => ContainsAny(lower(ret.body), verbs_as_stated) /\ ~RejectionFires(lower(ret.body))
        /\ RejectionFires(lower(ret.body)) => ~ret.value[1]

(* C4, amended: the same with deposited among the transaction verbs.       *)
C4_Guard ==
    ret.fn = "is_transaction_message" /\ ret.value # None =>
        /\ ret.value[1] =>
              /\ ContainsAny(lower(ret.body), verbs_as_stated \o <<<<"d","e","p","o","s","i","t","e","d">>>>)
              /\ ~RejectionFires(lower(ret.body))
        /\ RejectionFires(lower(ret.body)) => ~ret.value[1]

\* a body whose only verb is deposited was accepted
C4_Deposited ==
    /\ ret.fn = "is_transaction_message"
    /\ ret.value = Some(TRUE)
    /\ Contains(lower(ret.body), <<"d","e","p","o","s","i","t","e","d">>)
    /\ ~ContainsAny(lower(ret.body), verbs_as_stated)

marketing_phrases == <<<<"p","r","e","-","a","p","p","r","o","v","e","d">>, <<"c","a","s","h","b","a","c","k"," ","o","f","f","e","r">>, <<"a","p","p","l","y"," ","n","o","w">>>>

(* C5: a body with one of the marketing phrases "pre-approved", "cashback  *)
(* offer", "apply now" is rejected by is_transaction_message, so that parse *)
(* returns no Transaction for it, also when it has a transaction verb and   *)
(* an amount.                                                                *)
C5_MarketingRejected ==
    pc = "done" /\ sel # None /\ ContainsAny(lower(req.body), marketing_phrases) =>
        out.tag # "txn"

(* C6: for a parser that inherits the South-Asian base, a body that is a   *)
(* mandate notice (is_e_mandate_notification or is_future_debit_notification *)
(* is true) never becomes a Transaction.                                     *)
C6_MandateExcluded ==
    /\ pc = "done" /\ sel # None
    /\ (is_e_mandate_notification(Input) \/ is_future_debit_notification(Input))
    => out.tag # "txn"

\* tail is a substring of an 8-16 digit RRN/Ref number somewhere in the body
InSomeRrn(tail, body) ==
    \E k \in 1..2 : \E i \in 1..Len(body) :
        LET m == Match(<<rrn_patterns[k].re>>, rrn_patterns[k].ic, body, i, NoCaps)
        IN  m # Fail /\ Contains(SubSeq(body, m[2][1][1], m[2][1][2] - 1), tail)

(* C7: the default extract_account_last4 never returns a tail that (a) is  *)
(* the year of a DD/MM/T or T/MM/DD date of the body, (b) is a substring   *)
(* of an 8-16 digit RRN/Ref number of the body, or (c) lies in 2000-2099   *)
(* in a date-like or trailing position with no A/c, Account or Acct within *)
(* 25 characters before it.                                                 *)
C7_TailNotDateNorRrn ==
    ret.fn = "extract_account_last4" /\ ret.value # None /\ ret.value[1] # None =>
        /\ \A k \in 1..2 : Search(date_patterns(ret.value[1][1])[k], ret.body) = Fail
        /\ ~InSomeRrn(ret.value[1][1], ret.body)
        /\ ~ /\ IsYear(DigitsValue(ret.value[1][1]))
             /\ \E k \in 1..3 : Search(year_ctx(ret.value[1][1])[k], ret.body) # Fail
             /\ Search(acct_pattern(ret.value[1][1]), ret.body) = Fail

\* the first parser of the registration order that accepts the sender
FirstAccepting(sender) ==
    LET ks == {k \in 1..Len(Factory_parsers) : can_handle(Factory_parsers[k], sender)}
    IN  IF ks = {} THEN None ELSE Some(Factory_parsers[MinOr(ks, 0)])

(* C8: both get_parser lookups return the first parser in registration     *)
(* order that accepts the sender and none exactly when no parser accepts   *)
(* it, and is_known_bank_sender is true exactly when get_parser is not     *)
(* none.                                                                    *)
C8_FirstInOrder ==
    /\ pc \notin {"dispatch", "step"} => sel = FirstAccepting(req.sender)
    /\ pc = "done" /\ known # None => known[1] = (sel # None)

\* a sender two parsers accept was given to the earlier one, and is known
C8_Collision ==
    /\ pc = "done"
    /\ can_handle(HDFC, req.sender) /\ can_handle(SBI, req.sender)
    /\ sel = Some(HDFC)
    /\ known = Some(TRUE)

\* equal in sender, amount rounded to two places, and raw body
SameIdentityKey(a, b) ==
    /\ a.sender = b.sender
    /\ quantize(a.amount) = quantize(b.amount)
    /\ a.sms_body = b.sms_body

(* C9: generate_transaction_id depends only on sender, the amount rounded  *)
(* to two places and the raw body: two Transactions equal in these have    *)
(* the same identity whatever their other fields are, and so do amounts    *)
(* that are equal after rounding, such as 100 and 100.00.                   *)
C9_IdentityKey ==
    first # None /\ ident # None /\ SameIdentityKey(first[1].out.txn[1], out.txn[1]) =>
        ident = first[1].ident

\* two transactions with 100 and 100.00 and different other fields got one identity
C9_SameKeyOtherFields ==
    /\ first # None /\ ident # None
    /\ SameIdentityKey(first[1].out.txn[1], out.txn[1])
    /\ first[1].out.txn[1].amount # out.txn[1].amount
    /\ first[1].out.txn[1].type # out.txn[1].type
    /\ first[1].out.txn[1].timestamp # out.txn[1].timestamp
    /\ ident = first[1].ident

(* C10: parse called twice on one (body, sender, timestamp) yields the     *)
(* same outcome: both calls return none, or both return Transactions equal *)
(* field by field and with equal generate_transaction_id.                   *)
C10_SameOutcome ==
    first # None /\ pc = "done" /\ sel # None /\ (out.tag = "txn" => ident # None) =>
        \/ first[1].out.tag = "none" /\ out.tag = "none"
        \/ /\ first[1].out.tag = "txn" /\ out.tag = "txn"
           /\ out.txn = first[1].out.txn
           /\ ident = first[1].ident

----------------------------------------------------------------------------
(* The locale bases *)

(* C11: every Transaction returned by parse of the root default and of     *)
(* each locale base (South-Asian, Gulf, Iranian, Thai) has an amount that  *)
(* is not null and is greater than or equal to zero.                        *)
C11_AmountNonNegative ==
    out.tag = "txn" =>
        /\ part.amount # None
        /\ out.txn[1].amount = part.amount[1]
        /\ out.txn[1].amount.c >= 0

\* the Gulf base returned 75.50 for a body that also writes a number with a minus sign
C11_GulfAmount ==
    /\ pc = "done" /\ sel = Some(ENBD) /\ out.tag = "txn"
    /\ Contains(req.body, <<"U","S","D"," ","-","2","0">>)
    /\ out.txn[1].amount = [c |-> 7550, e |-> 2]

(* C12: every Transaction returned by parse whose kind is CREDIT has       *)
(* is_from_card = true, for every parser that can produce CREDIT.           *)
C12_CreditIsFromCard ==
    pc = "done" /\ out.tag = "txn" /\ out.txn[1].type = CREDIT => out.txn[1].is_from_card

(* C13: an overridden extraction step falls back to its parent when its    *)
(* own rules find nothing: on such a body the override returns exactly     *)
(* what the parent implementation returns.                                  *)
C13_FallsBackToParent ==
    pc = "override" /\ ret.value # None =>
        /\ ret.fn = "extract_amount" /\ own_extract_amount(sel[1], ret.body) = None =>
               ret.value[1] = super_extract_amount(sel[1], ret.body)
        /\ ret.fn = "extract_transaction_type"
               /\ own_extract_transaction_type(sel[1], ret.body) = None =>
               ret.value[1] = super_extract_transaction_type(sel[1], ret.body)

\* tail is no year of a date of the body, part of no RRN/Ref number, and no bare year
GuardedTail(tail, body) ==
    /\ \A k \in 1..2 : Search(date_patterns(tail)[k], body) = Fail
    /\ ~InSomeRrn(tail, body)
    /\ ~ /\ IsDigit(tail) /\ IsYear(DigitsValue(tail))
         /\ \E k \in 1..3 : Search(year_ctx(tail)[k], body) # Fail
         /\ Search(acct_pattern(tail), body) = Fail

(* C14: the SBI and HDFC leaves and the Iranian base preserve the guard of *)
(* the default account extractor: account_last4 of a returned Transaction  *)
(* is never a date fragment, never a substring of a reference/RRN number   *)
(* of the body, and never a bare year 2000-2099 without account vocabulary *)
(* before it.                                                               *)
C14_GuardPreserved ==
    /\ pc = "done" /\ out.tag = "txn" /\ sel[1] \in {SBI, HDFC, Melli}
    /\ out.txn[1].account_last4 # None
    => GuardedTail(out.txn[1].account_last4[1], req.body)

\* some sender of the pool is accepted by parser and gets parser from the lookup
Reachable(parser) ==
    \E s \in CatalogSenders : can_handle(parser, s) /\ Factory_get_parser(s) = Some(parser)

(* C15: no registered parser is shadowed: once the lookup has run, the     *)
(* parser put to the question has some sender that it accepts and for      *)
(* which get_parser returns it.                                            *)
C15_NoParserShadowed ==
    pc # "catalog" => Reachable(ret.probe)

(* C16: the SBI debit notice from sender XX-SBIBNK-S goes to the SBI       *)
(* parser, and parse returns a Transaction with amount 1234.56, kind       *)
(* EXPENSE, account_last4 "4321", a merchant containing "AMAZON", balance  *)
(* 9876.54 and currency "INR".                                             *)
C16_SbiDebitExample ==
    req.body = SbiDebit /\ req.sender = <<"X","X","-","S","B","I","B","N","K","-","S">> /\ pc = "done" =>
        /\ sel = Some(SBI)
        /\ out.tag = "txn"
        /\ out.txn[1].amount = [c |-> 123456, e |-> 2]
        /\ out.txn[1].type = EXPENSE
        /\ out.txn[1].account_last4 = Some(<<"4","3","2","1">>)
        /\ out.txn[1].merchant # None
        /\ Contains(out.txn[1].merchant[1], <<"A","M","A","Z","O","N">>)
        /\ out.txn[1].balance = Some([c |-> 987654, e |-> 2])
        /\ out.txn[1].currency = <<"I","N","R">>

(* C17: an offer that names an amount but has no transaction verb yields   *)
(* no match: the loan offer from sender XX-HDFCBK-P goes to the HDFC       *)
(* parser and parse returns None, and the card offer is turned down by the *)
(* default and by the HDFC is_transaction_message, before any amount is    *)
(* looked for.                                                             *)
C17_OffersYieldNoMatch ==
    /\ req.body = LoanOffer /\ req.sender = <<"X","X","-","H","D","F","C","B","K","-","P">> /\ pc = "done"
           => sel = Some(HDFC) /\ out.tag = "none"
    /\ req.body = CardOffer /\ pc = "done" /\ sel \in {Some(HDFC), Some(Utkarsh)}
           => out.tag = "none" /\ part = NoPart

C17_LoanOfferTurnedDown ==
    /\ req.body = LoanOffer /\ req.sender = <<"X","X","-","H","D","F","C","B","K","-","P">> /\ pc = "done"
    /\ sel = Some(HDFC) /\ out.tag = "none" /\ part = NoPart

\* the body is an e-mandate or future debit notice
IsMandateNotice(body) == is_e_mandate_notification(body) \/ is_future_debit_notification(body)

\* the INR or Rs amount of the body
NoticeAmount(body) == FirstDecimal(<<INR_PATTERN, RS_PATTERN>>, 1, body)

(* C18: parse_mandate_subscription never raises; on a mandate or future    *)
(* debit notice with an Rs/INR amount it returns a MandateInfo with that   *)
(* amount and a merchant; it returns None only when the body is no such    *)
(* notice or has no amount.                                                *)
C18_MandateInfoReturned ==
    pc = "mandate" /\ ret.value # None =>
        /\ ~IsRaise(ret.value[1])
        /\ IsMandateNotice(ret.body) /\ NoticeAmount(ret.body) # None =>
               /\ ret.value[1] # None
               /\ ret.value[1][1].amount = NoticeAmount(ret.body)[1]
               /\ ret.value[1][1].merchant # <<>>
        /\ ret.value[1] = None => ~IsMandateNotice(ret.body) \/ NoticeAmount(ret.body) = None

\* parser.parse raises for the message
Raises(request) ==
    /\ Factory_get_parser(request.address) # None
    /\ parse(Factory_get_parser(request.address)[1], request.body, request.address, request.date).tag = "raise"

(* C19: a failure on one message never aborts a batch: whatever parse does *)
(* with one message, parse_sms_batch and process_sms_data emit a result    *)
(* for every other message of the batch.                                   *)
C19_BatchNotAborted ==
    pc = "batch" /\ ret.value # None =>
        \A k \in 1..Len(ret.requests) :
            ~Raises(ret.requests[k]) =>
                \E j \in 1..Len(ret.value[1].emitted) : ret.value[1].emitted[j].k = k

(* C20: the Transaction that parse returns records the body, the sender    *)
(* and the timestamp exactly as they were passed in, and the bank name of  *)
(* the parser that produced it, for every parser, those that override      *)
(* parse included.                                                         *)
C20_SourceRecorded ==
    pc = "done" /\ out.tag = "txn" =>
        /\ out.txn[1].sms_body = req.body
        /\ out.txn[1].sender = req.sender
        /\ out.txn[1].timestamp = req.timestamp
        /\ out.txn[1].bank_name = get_bank_name(sel[1])

(* C21: the currency of a returned Transaction is the code that            *)
(* extract_currency of the parser finds in the body when it finds one, and *)
(* the default of the parser's locale (get_currency) otherwise.            *)
C21_CurrencyOfBodyOrLocale ==
    pc = "done" /\ out.tag = "txn" =>
        out.txn[1].currency = IF extract_currency(sel[1], req.body) # None
                              THEN extract_currency(sel[1], req.body)[1]
                              ELSE get_currency(sel[1])


\* currency_code of the match whose group 2 UAEBankParser.extract_amount returns, None when
\* no pattern of its own yields the amount
RECURSIVE UAE_amount_code(_, _)
UAE_amount_code(pats, message) ==
    IF pats = <<>> THEN None
    ELSE IF UAE_amount_of(Search(Head(pats), message), message) # None
    THEN Some(upper(Group(message, Search(Head(pats), message), 1)))
    ELSE UAE_amount_code(Tail(pats), message)

\* the 3-letter code next to the amount a Gulf parser returns
AmountCode(p, message) ==
    IF p = FAB THEN FAB_scan(FAB_amount_patterns, message).code
    ELSE UAE_amount_code(UAE_amount_patterns, message)

(* C22: in a Transaction returned by a Gulf parser, neither the currency   *)
(* nor the amount comes from a match whose 3-letter code is a month        *)
(* abbreviation.                                                           *)
C22_NoMonthAsCurrency ==
    pc = "done" /\ out.tag = "txn" /\ sel[1] \in {FAB, ENBD} =>
        /\ ~is_month_abbreviation(out.txn[1].currency)
        /\ AmountCode(sel[1], req.body) # None =>
               ~is_month_abbreviation(AmountCode(sel[1], req.body)[1])

\* the patterns of an ordered list whose leftmost match in the body has a group 1 that reads
\* as a decimal once its commas are removed
Parsing(pats, body) ==
    {k \in 1..Len(pats) : /\ Search(pats[k], body) # Fail
                          /\ Decimal(RemoveCommas(Group(body, Search(pats[k], body), 1))) # None}

\* the decimal of the first such pattern in list order, None when there is none
FirstParsing(pats, body) ==
    IF Parsing(pats, body) = {} THEN None
    ELSE Decimal(RemoveCommas(Group(body, Search(pats[MinOr(Parsing(pats, body), 0)], body), 1)))

StepPatterns == IF ret.fn = "extract_amount" THEN Amount_ALL_PATTERNS ELSE Balance_ALL_PATTERNS

(* C23: the default extract_amount and extract_balance return the decimal  *)
(* of the first pattern in list order whose match parses: a match that    *)
(* fails to parse is passed over, the result is null only when no pattern *)
(* has a match that parses, and the step returns rather than raises.      *)
C23_NextPatternAfterBadDecimal ==
    ret.fn \in {"extract_amount", "extract_balance"} /\ ret.value # None =>
        /\ ret.value[1] = FirstParsing(StepPatterns, ret.body)
        /\ ~IsRaise(ret.value[1])

\* a balance was returned although an earlier pattern of the list matched a text that is no
\* decimal
C23_BadMatchPassedOver ==
    /\ ret.fn = "extract_balance" /\ ret.value # None /\ ret.value[1] # None
    /\ \E k \in 1..Len(Balance_ALL_PATTERNS) :
           /\ Search(Balance_ALL_PATTERNS[k], ret.body) # Fail
           /\ k < MinOr(Parsing(Balance_ALL_PATTERNS, ret.body), 0)

\* the moves of a call of parse from one step to the next, and the start of another call
ParseOrder ==
    { <<"dispatch", "guard">>, <<"dispatch", "done">>, <<"guard", "amount">>, <<"guard", "done">>,
      <<"amount", "kind">>, <<"amount", "done">>, <<"kind", "side">>, <<"kind", "done">>,
      <<"side", "post">>, <<"side", "done">>, <<"post", "done">>, <<"done", "dispatch">> }

\* one step of parse keeps the order and goes on only where the step before it succeeded
StepsInOrder ==
    /\ pc' # pc => <<pc, pc'>> \in ParseOrder
    /\ pc' = "amount" => is_transaction_message(sel[1], parse_input(sel[1], req.body))
    /\ pc' = "kind" => part'.amount # None
    /\ pc' = "side" => /\ is_transaction_message(sel[1], parse_input(sel[1], req.body))
                       /\ part'.amount # None
                       /\ part'.type # None
    /\ pc = "guard" /\ ~is_transaction_message(sel[1], parse_input(sel[1], req.body)) =>
           pc' = "done" /\ part' = NoPart
    /\ pc = "amount" /\ part'.amount = None => pc' = "done" /\ part'.type = None
    /\ pc = "kind" /\ part'.type = None => pc' = "done"
    /\ out'.tag = "txn" /\ out.tag # "txn" => pc = "side"

(* C24: parse runs classify, amount, kind, the side extractors and the    *)
(* constructor in this order and stops at the first step that fails: the  *)
(* amount is extracted only after the message was classified as a         *)
(* transaction, the kind only after an amount was found, and the side     *)
(* extractors and the constructor only after all three succeeded.         *)
C24_FixedOrder == [][StepsInOrder]_vars

\* a call that passed the classification and stopped at the amount: no kind was extracted
C24_StoppedAtAmount ==
    /\ pc = "done" /\ out.tag = "none" /\ sel # None
    /\ is_transaction_message(sel[1], parse_input(sel[1], req.body))
    /\ part.amount = None /\ part.type = None

\* what the call returns when no other call runs
Alone(call) ==
    IF call.fn = "get_parser" THEN [tag |-> "parser", parser |-> Factory_get_parser(call.sender)]
    ELSE IF Factory_get_parser(call.sender) = None THEN [tag |-> "noparser", txn |-> None]
    ELSE parse(Factory_get_parser(call.sender)[1], call.body, call.sender, 1)

\* what the call has returned
ReturnedBy(call) ==
    IF call.fn = "get_parser" THEN [tag |-> "parser", parser |-> call.parser] ELSE call.out

(* C25: calls of parse and of get_parser that run side by side never      *)
(* write the parser list, a parser or the patterns, and each of them      *)
(* returns what it returns when it runs alone, however their steps are    *)
(* interleaved.                                                           *)
C25_CallsIndependent ==
    pc = "threads" =>
        /\ shared = Registered
        /\ \A t \in Threads : calls[t].at = "done" => ReturnedBy(calls[t]) = Alone(calls[t])

\* two calls of parse on the same parser: one has returned a transaction while the other is
\* between two of its steps
C25_Interleaved ==
    /\ pc = "threads"
    /\ calls[2].at = "done" /\ calls[2].out.tag = "txn"
    /\ calls[1].at = "kind" /\ calls[1].parser = calls[2].parser

(* C26: investment vocabulary wins over the verbs of payment in the SBI,  *)
(* Indian Bank and Gulf parsers as in the default: a Transaction returned *)
(* for a body that contains an investment keyword has kind Investment.    *)
C26_InvestmentWins ==
    /\ pc = "done" /\ out.tag = "txn"
    /\ sel[1] \in {SBI, IndianBank, FAB, ENBD}
    /\ is_investment_transaction(lower(parse_input(sel[1], req.body)))
    => out.txn[1].type = INVESTMENT

(* C27: the available limit is looked for only when the kind that        *)
(* extract_transaction_type returned is CREDIT: a Transaction returned by *)
(* the default pipeline or by the parse of FAB carries the limit of the   *)
(* body in that case and credit_limit = null in every other.              *)
C27_LimitOnlyForCardCharge ==
    pc = "done" /\ out.tag = "txn" =>
        out.txn[1].credit_limit =
            IF part.type[1] = CREDIT
            THEN extract_available_limit(sel[1], parse_input(sel[1], req.body))
            ELSE None

\* FAB returned a purchase by debit card whose body states a limit: the limit was not taken
C27_LimitLeftOut ==
    /\ pc = "done" /\ out.tag = "txn" /\ sel[1] = FAB
    /\ part.type[1] = EXPENSE
    /\ extract_available_limit(FAB, req.body) # None
    /\ out.txn[1].credit_limit = None

\* the status the three cases give a message; a message whose parse raises has none of them
StatusOf(parser, parsed_txn) ==
    IF parser = None THEN "error"
    ELSE IF parsed_txn.tag = "txn" THEN "success"
    ELSE IF parsed_txn.tag = "none" THEN "unparsed"
    ELSE "no status"

StatusOfRequest(request) ==
    IF Factory_get_parser(request.address) = None THEN "error"
    ELSE StatusOf(Factory_get_parser(request.address),
                  parse(Factory_get_parser(request.address)[1], request.body, request.address,
                        request.date))

\* the status code of the endpoint of one message for each status
CodeOf(status) ==
    CASE status = "error" -> 404
      [] status = "unparsed" -> 422
      [] status = "success" -> 200
      [] OTHER -> 0

(* C28: parse_sms_batch returns one result for every request, in the      *)
(* order of the requests, with status "error" exactly when no parser      *)
(* accepts the sender, "unparsed" exactly when parse returns none and     *)
(* "success" exactly when it returns a Transaction; a result with status  *)
(* "error" carries no field of a Transaction; parse_sms answers the same  *)
(* three cases 404, 422 and a body with status "success".                 *)
C28_OneResultPerRequest ==
    /\ pc = "batch" /\ ret.fn = "parse_sms_batch" /\ ret.value # None =>
           /\ ret.value[1].tag = "return"
           /\ Len(ret.value[1].emitted) = Len(ret.requests)
           /\ \A k \in 1..Len(ret.value[1].emitted) :
                  /\ ret.value[1].emitted[k].k = k
                  /\ k <= Len(ret.requests) =>
                         ret.value[1].emitted[k].status = StatusOfRequest(ret.requests[k])
                  /\ ret.value[1].emitted[k].status = "error" =>
                         ret.value[1].emitted[k].transaction_id = None
    /\ pc = "single" /\ ret.value # None =>
           /\ ret.value[1].tag = "return"
           /\ ret.value[1].status_code = CodeOf(StatusOfRequest(ret.requests[1]))
           /\ ret.value[1].status_code = 200 <=>
                  ret.value[1].result # None /\ ret.value[1].result[1].status = "success"

\* what super().parse returned to SBIBankParser.parse for the request
SBI_base(body, sender, timestamp) ==
    ParseWith(SBI, parse_input(SBI, body), sender, timestamp,
              extract_amount(SBI, parse_input(SBI, body)),
              extract_transaction_type(SBI, parse_input(SBI, body)))

\* the kind the credit card branch gives: INCOME for a payment to the card, CREDIT otherwise
SBI_card_kind(low) ==
    IF Contains(low, <<"p","a","y","m","e","n","t"," ","o","f">>) /\ Contains(low, <<"c","r","e","d","i","t","e","d"," ","t","o"," ","y","o","u","r"," ","s","b","i"," ","c","r","e","d","i","t"," ","c","a","r","d">>)
    THEN INCOME
    ELSE CREDIT

(* C29: when SBIBankParser.parse handles a credit card message for which  *)
(* the base pipeline produced a Transaction, parse does not raise and the *)
(* value it returns has is_from_card = true, kind INCOME for a payment to *)
(* the card and CREDIT otherwise, account_last4 equal to the tail after   *)
(* "ending [with]" (else the value of the base pipeline) and credit_limit *)
(* equal to the available limit of the body (else the base value).        *)
C29_CardOverridesReturned ==
    /\ pc = "done" /\ sel = Some(SBI) /\ out.tag # "none"
    /\ is_credit_card_message(req.sender, parse_input(SBI, req.body))
    =>
    /\ out.tag = "txn"
    /\ out.txn[1].is_from_card = TRUE
    /\ out.txn[1].type = SBI_card_kind(lower(parse_input(SBI, req.body)))
    /\ out.txn[1].account_last4 =
           OrElse(extract_credit_card_last4(parse_input(SBI, req.body)),
                  SBI_base(req.body, req.sender, req.timestamp).txn[1].account_last4)
    /\ out.txn[1].credit_limit =
           OrElse(SBI_extract_available_limit(parse_input(SBI, req.body)),
                  SBI_base(req.body, req.sender, req.timestamp).txn[1].credit_limit)

\* the parsers whose kind step and parse are the default ones
DefaultKindParsers == {Canara, Bandhan}

\* "transferred" is the only verb of the body: no investment keyword and no keyword of the
\* kind step
OnlyTransferred(low) ==
    /\ Contains(low, <<"t","r","a","n","s","f","e","r","r","e","d">>)
    /\ ~is_investment_transaction(low)
    /\ ~ContainsAny(low, <<<<"d","e","b","i","t","e","d">>, <<"w","i","t","h","d","r","a","w","n">>, <<"s","p","e","n","t">>, <<"c","h","a","r","g","e","d">>, <<"p","a","i","d">>, <<"p","u","r","c","h","a","s","e">>,
                            <<"d","e","d","u","c","t","e","d">>, <<"c","r","e","d","i","t","e","d">>, <<"d","e","p","o","s","i","t","e","d">>, <<"r","e","c","e","i","v","e","d">>, <<"r","e","f","u","n","d">>,
                            <<"c","a","s","h","b","a","c","k">>>>)

(* C30: the default extract_transaction_type yields INVESTMENT, EXPENSE,  *)
(* INCOME or null only, never TRANSFER, BALANCE_UPDATE or CREDIT; a body  *)
(* that the default is_transaction_message accepts for the verb           *)
(* "transferred" alone makes the default parse return none, whether an    *)
(* amount was found or not.                                               *)
C30_TransferredAloneIsNone ==
    /\ sel # None /\ sel[1] \in DefaultKindParsers /\ part.type # None =>
           part.type[1] \in {INVESTMENT, EXPENSE, INCOME}
    /\ /\ pc = "done" /\ sel # None /\ sel[1] \in DefaultKindParsers
       /\ BankParser_is_transaction_message(req.body)
       /\ OnlyTransferred(lower(req.body))
       => out.tag = "none"

\* the default parser found the amount of a body with "transferred" alone and returned none
C30_AmountWithoutKind ==
    /\ pc = "done" /\ sel = Some(Bandhan)
    /\ BankParser_is_transaction_message(req.body)
    /\ OnlyTransferred(lower(req.body))
    /\ part.amount # None
    /\ out.tag = "none"


====
